---- MODULE Spec2Model ----
(***************************************************************************)
(* Verification model of openenvx: the envelope encryption engine          *)
(* (internal/crypto) and the agent envelope protocol (internal/envelope).  *)
(*                                                                         *)
(* Strings and byte slices are sequences of byte values 0..255 (a Go       *)
(* string is its bytes).  A Go result pair (value, err) is a record with   *)
(* an err field; err = "" is a nil error.                                  *)
(***************************************************************************)
EXTENDS Integers, Sequences, FiniteSets, TLC

VARIABLES
    now,        \* system clock in ticks (time.Now().UTC())
    rnd,        \* number of crypto/rand reads done so far
    sealed,     \* every AEAD sealing performed so far (what gcm.Open accepts)
    vault,      \* values returned by Envelope.Encrypt, with their inputs
    encErr,     \* error of the last Envelope.Encrypt
    decRes,     \* outcome of the last parse-and-Decrypt
    createRes,  \* outcome of the last envelope.Create
    token,      \* the serialized bundle handed to the consumer
    bundle,     \* the consumer's envelope (result of Parse, possibly corrupted)
    twin,       \* a second envelope with the same metadata as bundle
    parseErr,   \* error of the last envelope.Parse
    unwrapRes,  \* outcome of the last Unwrap of bundle
    infoRes,    \* outcome of the last Inspect of bundle and of twin
    handed,     \* a token that arrived damaged, and what Parse and Unwrap made of it
    logFile,    \* .envx/audit.logl: the directory, the file and its bytes
    mu,         \* the mutex mu of each process: the caller holding it, or 0
    calls,      \* the call of Log each caller is in, if any
    appended,   \* the calls of Log that returned, in the order of their writes
    tamper,     \* what was done to the log file from outside, if anything
    auditRes,   \* outcome of the last Verify or Show
    strategies, \* the AsymmetricStrategy instances: identity and cachedKey
    keyHeap,    \* the MasterKey objects allocated so far
    getCalls,   \* the call of GetMasterKey each thread is in, if any
    returned,   \* the calls of GetMasterKey that returned, in that order
    dotenv,     \* the .env file of the workspace: the stored value of each name
    readOnly,   \* whether the workdir refuses new directories and files
    minted,     \* the token envelope create handed out last, and its bundle
    run,        \* the envelope run under way or finished last
    reports,    \* the set, envelope create and envelope run commands that reported success
    refusals    \* the number of commands that reported an error

vars == <<now, rnd, sealed, vault, encErr, decRes, createRes, token, bundle, twin,
          parseErr, unwrapRes, infoRes, handed, logFile, mu, calls, appended, tamper,
          auditRes, strategies, keyHeap, getCalls, returned, dotenv, readOnly,
          minted, run, reports, refusals>>

engineVars == <<vault, encErr, decRes>>
agentVars == <<createRes, token, bundle, twin, parseErr, unwrapRes, infoRes,
               handed>>
auditVars == <<logFile, mu, calls, appended, tamper, auditRes>>
keyVars == <<strategies, keyHeap, getCalls, returned>>
cliVars == <<dotenv, readOnly, minted, run, reports, refusals>>

(***************************************************************************)
(* Bounds of the model.                                                    *)
(***************************************************************************)
MaxEncrypts == 2
MaxTime == 8
TicksPerSecond == 3

NoValue == [none |-> TRUE]

(***************************************************************************)
(* Bytes, characters and small helpers.                                    *)
(***************************************************************************)
Colon == 58
Pad == 61
Bang == 33

Min(a, b) == IF a < b THEN a ELSE b

\* err == nil
ErrNone(r) == r.err = ""

\* v := ...; Op(v): the value is computed once and then used
Once(v, Op(_)) == CHOOSE y \in {Op(w) : w \in {v}} : TRUE

HasPrefix(s, p) == Len(s) >= Len(p) /\ SubSeq(s, 1, Len(p)) = p

\* strings.Index(s, <<c>>): first position of byte c in s, 0 when absent
IndexByte(s, c) ==
    IF \E i \in 1..Len(s) : s[i] = c
    THEN CHOOSE i \in 1..Len(s) : s[i] = c /\ \A j \in 1..(i - 1) : s[j] # c
    ELSE 0

(***************************************************************************)
(* encoding/base64, StdEncoding: alphabet A-Z a-z 0-9 + /, padding '='.    *)
(***************************************************************************)
B64Char(v) ==
    IF v < 26 THEN 65 + v
    ELSE IF v < 52 THEN 97 + (v - 26)
    ELSE IF v < 62 THEN 48 + (v - 52)
    ELSE IF v = 62 THEN 43 ELSE 47

B64Val(c) ==
    IF c >= 65 /\ c <= 90 THEN c - 65
    ELSE IF c >= 97 /\ c <= 122 THEN c - 97 + 26
    ELSE IF c >= 48 /\ c <= 57 THEN c - 48 + 52
    ELSE IF c = 43 THEN 62
    ELSE IF c = 47 THEN 63 ELSE -1

Base64Encode(b) ==
    LET n == Len(b)
        At(k) == IF k <= n THEN b[k] ELSE 0
    IN [i \in 1..(4 * ((n + 2) \div 3)) |->
          LET g == (i - 1) \div 4
              k == (i - 1) % 4
              b1 == At(3 * g + 1)
              b2 == At(3 * g + 2)
              b3 == At(3 * g + 3)
          IN CASE k = 0 -> B64Char(b1 \div 4)
               [] k = 1 -> B64Char((b1 % 4) * 16 + (b2 \div 16))
               [] k = 2 -> IF 3 * g + 2 > n THEN Pad
                           ELSE B64Char((b2 % 16) * 4 + (b3 \div 64))
               [] k = 3 -> IF 3 * g + 3 > n THEN Pad
                           ELSE B64Char(b3 % 64)]

\* DecodeString: [err, bytes]; err = "corrupt" is base64.CorruptInputError
Base64Decode(s) ==
    LET n == Len(s)
        pads == IF n >= 2 /\ s[n] = Pad /\ s[n - 1] = Pad THEN 2
                ELSE IF n >= 1 /\ s[n] = Pad THEN 1 ELSE 0
        wellFormed == /\ n % 4 = 0
                      /\ \A i \in 1..(n - pads) : B64Val(s[i]) >= 0
        outLen == (n \div 4) * 3 - pads
        V(k) == IF k <= n - pads THEN B64Val(s[k]) ELSE 0
    IN IF ~wellFormed THEN [err |-> "corrupt", bytes |-> <<>>]
       ELSE [err |-> "",
             bytes |-> [i \in 1..outLen |->
                 LET g == (i - 1) \div 3
                     k == (i - 1) % 3
                     v1 == V(4 * g + 1)
                     v2 == V(4 * g + 2)
                     v3 == V(4 * g + 3)
                     v4 == V(4 * g + 4)
                 IN CASE k = 0 -> v1 * 4 + (v2 \div 16)
                      [] k = 1 -> (v2 % 16) * 16 + (v3 \div 4)
                      [] k = 2 -> (v3 % 4) * 64 + v4]]

(***************************************************************************)
(* crypto/rand and AES-GCM (internal/crypto aesgcm).                       *)
(*                                                                         *)
(* crypto/rand is an ideal source: the c-th read returns bytes no other    *)
(* read returns.  AES-GCM is an ideal AEAD: Open accepts exactly the       *)
(* (key, associated data, ciphertext) triples that Seal produced, which    *)
(* the variable sealed records.                                            *)
(***************************************************************************)
NonceSize == 12
TagSize == 16
DEKSize == 32

RandBytes(n, c) == [i \in 1..n |-> (c + i - 1) % 256]

ValidKeySize(key) == Len(key) \in {16, 24, 32}

\* gcm.Seal(nonce, nonce, plaintext, aad): nonce, then the encrypted
\* plaintext, then the tag
GcmSeal(key, nonce, pt, aad) ==
    nonce
    \o [i \in 1..Len(pt) |-> (pt[i] + key[1] + nonce[1] + i) % 256]
    \o [i \in 1..TagSize |-> (key[1] + nonce[1] + Len(pt) + Len(aad) + i) % 256]

\* EncryptAESGCM(key, plaintext, aad) drawing its nonce from read c
SealAESGCM(key, pt, aad, c) ==
    IF ~ValidKeySize(key) THEN [err |-> "InvalidKeySize", ct |-> <<>>]
    ELSE [err |-> "", ct |-> GcmSeal(key, RandBytes(NonceSize, c), pt, aad)]

SealEntry(key, pt, aad, c) ==
    [key |-> key, aad |-> aad, pt |-> pt, ct |-> SealAESGCM(key, pt, aad, c).ct]

\* OpenAESGCM without the check of the associated data
OpenAESGCMAnyAad(tbl, key, ct, aad) ==
    IF ~ValidKeySize(key) THEN [err |-> "InvalidKeySize", pt |-> <<>>]
    ELSE IF Len(ct) < NonceSize THEN [err |-> "CiphertextShort", pt |-> <<>>]
    ELSE IF \E e \in tbl : e.key = key /\ e.ct = ct
         THEN [err |-> "",
               pt |-> (CHOOSE e \in tbl : e.key = key /\ e.ct = ct).pt]
         ELSE [err |-> "AuthFailed", pt |-> <<>>]

\* DecryptAESGCM(key, ciphertext, aad) against the sealings in tbl
OpenAESGCM(tbl, key, ct, aad) ==
    IF ~ValidKeySize(key) THEN [err |-> "InvalidKeySize", pt |-> <<>>]
    ELSE IF Len(ct) < NonceSize THEN [err |-> "CiphertextShort", pt |-> <<>>]
    ELSE IF \E e \in tbl : e.key = key /\ e.aad = aad /\ e.ct = ct
         THEN [err |-> "",
               pt |-> (CHOOSE e \in tbl : e.key = key /\ e.aad = aad /\ e.ct = ct).pt]
         ELSE [err |-> "AuthFailed", pt |-> <<>>]

(***************************************************************************)
(* internal/crypto: MasterKey, DEK, EncryptedValue, Envelope.              *)
(***************************************************************************)
masterKeySize == 32

\* a MasterKey: masterKeySize bytes, one distinct key per identity number
MasterKey(id) == [j \in 1..masterKeySize |-> (16 * id + j) % 256]

MasterKeys == {MasterKey(1), MasterKey(2)}

\* "envx:"
EncryptedValuePrefix == <<101, 110, 118, 120, 58>>

\* EncryptedValue.String
String(ev) == EncryptedValuePrefix \o ev.WrappedDEK \o <<Colon>> \o ev.Ciphertext

NoEncryptedValue == [WrappedDEK |-> <<>>, Ciphertext |-> <<>>]

\* a ParseEncryptedValue that wants two fields that are not empty
ParseEncryptedValueNonEmpty(s) ==
    IF ~HasPrefix(s, EncryptedValuePrefix)
    THEN [err |-> "not an encrypted value", ev |-> NoEncryptedValue]
    ELSE LET rest == SubSeq(s, Len(EncryptedValuePrefix) + 1, Len(s))
             cut == IndexByte(rest, Colon)
         IN IF cut <= 1 \/ cut = Len(rest)
            THEN [err |-> "invalid encrypted value format", ev |-> NoEncryptedValue]
            ELSE [err |-> "",
                  ev |-> [WrappedDEK |-> SubSeq(rest, 1, cut - 1),
                          Ciphertext |-> SubSeq(rest, cut + 1, Len(rest))]]

ParseEncryptedValue(s) ==
    IF ~HasPrefix(s, EncryptedValuePrefix)
    THEN [err |-> "not an encrypted value", ev |-> NoEncryptedValue]
    ELSE LET rest == SubSeq(s, Len(EncryptedValuePrefix) + 1, Len(s))
             cut == IndexByte(rest, Colon)
         IN IF cut = 0
            THEN [err |-> "invalid encrypted value format", ev |-> NoEncryptedValue]
            ELSE [err |-> "",
                  ev |-> [WrappedDEK |-> SubSeq(rest, 1, cut - 1),
                          Ciphertext |-> SubSeq(rest, cut + 1, Len(rest))]]

\* GenerateDEK drawing its key from read c
GenerateDEK(c) == RandBytes(DEKSize, c)

\* Envelope.Encrypt sealing the plaintext without the name as associated data
EnvelopeEncryptUnbound(mk, plaintext, keyName, c) ==
    LET dek == GenerateDEK(c)
        data == SealAESGCM(dek, plaintext, <<>>, c + 1)
        wrapped == SealAESGCM(mk, dek, <<>>, c + 2)
    IN [err |-> "",
        ev |-> [WrappedDEK |-> Base64Encode(wrapped.ct),
                Ciphertext |-> Base64Encode(data.ct)],
        seals |-> {SealEntry(dek, plaintext, <<>>, c + 1),
                   SealEntry(mk, dek, <<>>, c + 2)},
        reads |-> 3]

\* Envelope.Encrypt with a DEK and nonces that are the same on every call
EnvelopeEncryptStatic(mk, plaintext, keyName, c) ==
    LET dek == GenerateDEK(0)
        data == SealAESGCM(dek, plaintext, keyName, 1)
        wrapped == SealAESGCM(mk, dek, <<>>, 2)
    IN [err |-> "",
        ev |-> [WrappedDEK |-> Base64Encode(wrapped.ct),
                Ciphertext |-> Base64Encode(data.ct)],
        seals |-> {SealEntry(dek, plaintext, keyName, 1),
                   SealEntry(mk, dek, <<>>, 2)},
        reads |-> 3]

\* Envelope.Encrypt under master key mk; c is the number of the first of its
\* three reads of crypto/rand: the DEK, the data nonce, the wrapping nonce.
\* seals: the sealings it performs.
EnvelopeEncrypt(mk, plaintext, keyName, c) ==
    LET dek == GenerateDEK(c)
        data == SealAESGCM(dek, plaintext, keyName, c + 1)
        wrapped == SealAESGCM(mk, dek, <<>>, c + 2)
    IN IF data.err # ""
       THEN [err |-> "failed to encrypt with DEK", ev |-> NoEncryptedValue,
             seals |-> {}, reads |-> 1]
       ELSE IF wrapped.err # ""
       THEN [err |-> "failed to wrap DEK", ev |-> NoEncryptedValue,
             seals |-> {SealEntry(dek, plaintext, keyName, c + 1)}, reads |-> 2]
       ELSE [err |-> "",
             ev |-> [WrappedDEK |-> Base64Encode(wrapped.ct),
                     Ciphertext |-> Base64Encode(data.ct)],
             seals |-> {SealEntry(dek, plaintext, keyName, c + 1),
                        SealEntry(mk, dek, <<>>, c + 2)},
             reads |-> 3]

\* Envelope.Decrypt under master key mk
EnvelopeDecrypt(tbl, mk, ev, keyName) ==
    LET wrappedDEK == Base64Decode(ev.WrappedDEK)
        dek == OpenAESGCM(tbl, mk, wrappedDEK.bytes, <<>>)
        ciphertext == Base64Decode(ev.Ciphertext)
        plain == OpenAESGCM(tbl, dek.pt, ciphertext.bytes, keyName)
    IN IF wrappedDEK.err # ""
       THEN [err |-> "failed to decode wrapped DEK", pt |-> <<>>]
       ELSE IF dek.err # ""
       THEN [err |-> "failed to unwrap DEK", pt |-> <<>>]
       ELSE IF ciphertext.err # ""
       THEN [err |-> "failed to decode ciphertext", pt |-> <<>>]
       ELSE IF plain.err # ""
       THEN [err |-> "failed to decrypt", pt |-> <<>>]
       ELSE [err |-> "", pt |-> plain.pt]

(***************************************************************************)
(* Inputs of the envelope engine.                                          *)
(***************************************************************************)
\* secret names "A" and "B"
Names == {<<65>>, <<66>>}

\* plaintexts: the empty one and a binary one
Plaintexts == {<<>>, <<104, 0, 255>>}

\* what may happen to a stored string before it is read back
Damages == {"none", "wrappedNotBase64", "cipherNotBase64", "cipherFlipped",
            "noSeparator", "otherPrefix", "emptyFields"}

Damage(s, kind) ==
    LET w == Len(EncryptedValuePrefix) + 1
        sep == Len(EncryptedValuePrefix)
               + IndexByte(SubSeq(s, w, Len(s)), Colon)
    IN CASE kind = "none" -> s
         [] kind = "wrappedNotBase64" -> [s EXCEPT ![w] = Bang]
         [] kind = "cipherNotBase64" -> [s EXCEPT ![sep + 1] = Bang]
         [] kind = "cipherFlipped" ->
                [s EXCEPT ![Len(s) - 4] = IF @ = 65 THEN 66 ELSE 65]
         [] kind = "noSeparator" -> SubSeq(s, 1, sep - 1)
         [] kind = "otherPrefix" -> <<101, 110, 99, 58>> \o SubSeq(s, w, Len(s))
         [] kind = "emptyFields" -> EncryptedValuePrefix \o <<Colon>>

(***************************************************************************)
(* Actions of the envelope engine.                                         *)
(***************************************************************************)
NoDecrypt == [i |-> 0, mk |-> <<>>, n |-> <<>>, kind |-> "none", s |-> <<>>,
              parseErr |-> "not called", err |-> "not called", pt |-> <<>>]

\* SetEnvValue: encrypt a value under its name and store the serialized form
Encrypt(mk, p, n) ==
    /\ Len(vault) < MaxEncrypts
    /\ decRes' = NoDecrypt
    /\ LET r == EnvelopeEncrypt(mk, p, n, rnd)
       IN /\ rnd' = rnd + r.reads
          /\ sealed' = sealed \cup r.seals
          /\ encErr' = r.err
          /\ vault' = IF r.err = ""
                      THEN Append(vault, [mk |-> mk, p |-> p, n |-> n,
                                          ev |-> r.ev, str |-> String(r.ev)])
                      ELSE vault
    /\ UNCHANGED now
    /\ UNCHANGED agentVars
    /\ UNCHANGED auditVars
    /\ UNCHANGED keyVars
    /\ UNCHANGED cliVars

\* DecryptEnvFile on one entry: parse the stored string, then decrypt it as
\* name n under master key mk; the stored values are read back once before
\* the next one is stored, a damaged one under its own name and one without
\* its fields also under its own key
Decrypt(i, mk, n, kind) ==
    /\ i \in 1..Len(vault)
    /\ decRes = NoDecrypt
    /\ kind # "none" => n = vault[i].n
    /\ kind = "emptyFields" => mk = vault[i].mk
    /\ LET s == Damage(vault[i].str, kind)
           parsed == ParseEncryptedValue(s)
           d == EnvelopeDecrypt(sealed, mk, parsed.ev, n)
       IN decRes' = [i |-> i, mk |-> mk, n |-> n, kind |-> kind, s |-> s,
                     parseErr |-> parsed.err,
                     err |-> IF parsed.err # "" THEN parsed.err ELSE d.err,
                     pt |-> IF parsed.err # "" THEN <<>> ELSE d.pt]
    /\ UNCHANGED <<now, rnd, sealed, vault, encErr>>
    /\ UNCHANGED agentVars
    /\ UNCHANGED auditVars
    /\ UNCHANGED keyVars
    /\ UNCHANGED cliVars

(***************************************************************************)
(* time: a time.Time is a number of ticks since 1970-01-01T00:00:00Z, with *)
(* TicksPerSecond ticks to the second.  Layout time.RFC3339 has no         *)
(* fractional seconds: "1970-01-01T00:MM:SSZ" within the first hour.       *)
(***************************************************************************)
Digit(v) == 48 + v

IsDigit(c) == c >= 48 /\ c <= 57

\* "1970-01-01T00:"
DateHourPrefix == <<49, 57, 55, 48, 45, 48, 49, 45, 48, 49, 84, 48, 48, 58>>

\* Time.Format(time.RFC3339) of a UTC time
FormatRFC3339(t) ==
    LET sec == t \div TicksPerSecond
        mm == sec \div 60
        ss == sec % 60
    IN DateHourPrefix
       \o <<Digit(mm \div 10), Digit(mm % 10), Colon,
            Digit(ss \div 10), Digit(ss % 10), 90>>

\* time.Parse(time.RFC3339, s)
ParseRFC3339(s) ==
    IF /\ Len(s) = 20
       /\ HasPrefix(s, DateHourPrefix)
       /\ IsDigit(s[15]) /\ IsDigit(s[16]) /\ s[17] = Colon
       /\ IsDigit(s[18]) /\ IsDigit(s[19]) /\ s[20] = 90
       /\ s[15] - 48 < 6 /\ s[18] - 48 < 6
    THEN [err |-> "",
          t |-> (((s[15] - 48) * 10 + (s[16] - 48)) * 60
                 + (s[18] - 48) * 10 + (s[19] - 48)) * TicksPerSecond]
    ELSE [err |-> "parse", t |-> 0]

\* a comparison that also holds at the instant u itself
AfterOrAt(t, u) == t >= u

\* Time.After
After(t, u) == t > u

(***************************************************************************)
(* uuid.New().String() and crypto/sha256.                                  *)
(***************************************************************************)
HexDigit(v) == IF v < 10 THEN 48 + v ELSE 87 + v

\* a version 4 UUID drawn from read c, as 36 characters
NewUUID(c) ==
    LET r == RandBytes(16, c)
        b == [r EXCEPT ![7] = 64 + (@ % 16), ![9] = 128 + (@ % 64)]
        hex == [i \in 1..32 |-> IF i % 2 = 1 THEN HexDigit(b[(i + 1) \div 2] \div 16)
                                ELSE HexDigit(b[i \div 2] % 16)]
    IN SubSeq(hex, 1, 8) \o <<45>> \o SubSeq(hex, 9, 12) \o <<45>>
       \o SubSeq(hex, 13, 16) \o <<45>> \o SubSeq(hex, 17, 20) \o <<45>>
       \o SubSeq(hex, 21, 32)

\* the sum modulo 256 of the bytes m[lo..hi], each weighted by its position
\* when w = 2
RECURSIVE ByteSum(_, _, _, _)
ByteSum(m, w, lo, hi) ==
    IF lo > hi THEN 0
    ELSE IF lo = hi THEN (m[lo] * (IF w = 1 THEN 1 ELSE lo)) % 256
    ELSE LET mid == (lo + hi) \div 2
         IN (ByteSum(m, w, lo, mid) + ByteSum(m, w, mid + 1, hi)) % 256

\* sha256.Sum256: a 32-byte digest; changing one byte of the message
\* changes every byte of the digest
Sha256(m) ==
    LET s1 == ByteSum(m, 1, 1, Len(m))
        s2 == ByteSum(m, 2, 1, Len(m))
    IN [i \in 1..32 |-> (s1 * (2 * i + 1) + 2 * s2 + Len(m) + i) % 256]

(***************************************************************************)
(* encoding/json for the documents of the bundle format.  A JSON value is  *)
(* [t |-> "str", v |-> bytes], [t |-> "arr", v |-> sequence of values],    *)
(* [t |-> "obj", v |-> function from member names to values] or            *)
(* [t |-> "other", v |-> <<>>] (null, true, false, a number).              *)
(***************************************************************************)
Quote == 34
Backslash == 92
Comma == 44
LBracket == 91
RBracket == 93
LBrace == 123
RBrace == 125

JStr(s) == [t |-> "str", v |-> s]
JArr(a) == [t |-> "arr", v |-> a]
JObj(o) == [t |-> "obj", v |-> o]
JOther == [t |-> "other", v |-> <<>>]

\* a < b in byte order
LexLess(a, b) ==
    \/ Len(a) < Len(b) /\ SubSeq(b, 1, Len(a)) = a
    \/ \E i \in 1..Min(Len(a), Len(b)) :
          a[i] < b[i] /\ SubSeq(a, 1, i - 1) = SubSeq(b, 1, i - 1)

\* the members of S in byte order (json.Marshal sorts map keys)
RECURSIVE SortedKeys(_)
SortedKeys(S) ==
    IF S = {} THEN <<>>
    ELSE LET m == CHOOSE x \in S : \A y \in S \ {x} : LexLess(x, y)
         IN <<m>> \o SortedKeys(S \ {m})

RECURSIVE JoinSeqs(_, _)
JoinSeqs(parts, sep) ==
    IF Len(parts) = 0 THEN <<>>
    ELSE IF Len(parts) = 1 THEN parts[1]
    ELSE parts[1] \o sep \o JoinSeqs(Tail(parts), sep)

\* the first position from i on of a byte of s that is in set C,
\* Len(s) + 1 when there is none
FirstOf(s, i, C) ==
    IF \E j \in i..Len(s) : s[j] \in C
    THEN CHOOSE j \in i..Len(s) : s[j] \in C /\ \A k \in i..(j - 1) : s[k] \notin C
    ELSE Len(s) + 1

RECURSIVE EscapeJSON(_)
EscapeJSON(s) ==
    LET q == FirstOf(s, 1, {Quote, Backslash})
    IN IF q > Len(s) THEN s
       ELSE SubSeq(s, 1, q - 1) \o <<Backslash, s[q]>>
            \o EscapeJSON(SubSeq(s, q + 1, Len(s)))

\* json.Marshal
RECURSIVE JSONMarshal(_)
JSONMarshal(j) ==
    CASE j.t = "str" -> <<Quote>> \o EscapeJSON(j.v) \o <<Quote>>
      [] j.t = "arr" ->
            <<LBracket>>
            \o JoinSeqs([i \in 1..Len(j.v) |-> JSONMarshal(j.v[i])], <<Comma>>)
            \o <<RBracket>>
      [] j.t = "obj" ->
            LET ks == SortedKeys(DOMAIN j.v)
            IN <<LBrace>>
               \o JoinSeqs([i \in 1..Len(ks) |->
                              <<Quote>> \o EscapeJSON(ks[i]) \o <<Quote, Colon>>
                              \o JSONMarshal(j.v[ks[i]])], <<Comma>>)
               \o <<RBrace>>
      [] j.t = "other" -> <<110, 117, 108, 108>>

JFail == [ok |-> FALSE, val |-> JOther, next |-> 0]

\* the rest of a string literal from position i on, after its opening quote
RECURSIVE JStringBody(_, _, _)
JStringBody(s, i, acc) ==
    Once(FirstOf(s, i, {Quote, Backslash} \cup 0..31), LAMBDA q :
        IF q > Len(s) THEN JFail
        ELSE IF s[q] = Quote
        THEN [ok |-> TRUE, val |-> JStr(acc \o SubSeq(s, i, q - 1)),
              next |-> q + 1]
        ELSE IF s[q] = Backslash /\ q + 1 <= Len(s)
                /\ s[q + 1] \in {Quote, Backslash, 47}
        THEN JStringBody(s, q + 2, Append(acc \o SubSeq(s, i, q - 1), s[q + 1]))
        ELSE JFail)

RECURSIVE JNumberEnd(_, _)
JNumberEnd(s, i) == IF i <= Len(s) /\ IsDigit(s[i]) THEN JNumberEnd(s, i + 1) ELSE i

RECURSIVE JValue(_, _), JArrayItems(_, _, _), JObjectMembers(_, _, _)
JValue(s, i) ==
    IF i > Len(s) THEN JFail
    ELSE IF s[i] = Quote THEN JStringBody(s, i + 1, <<>>)
    ELSE IF s[i] = LBracket
    THEN IF i + 1 <= Len(s) /\ s[i + 1] = RBracket
         THEN [ok |-> TRUE, val |-> JArr(<<>>), next |-> i + 2]
         ELSE JArrayItems(s, i + 1, <<>>)
    ELSE IF s[i] = LBrace
    THEN IF i + 1 <= Len(s) /\ s[i + 1] = RBrace
         THEN [ok |-> TRUE, val |-> JObj(<<>>), next |-> i + 2]
         ELSE JObjectMembers(s, i + 1, <<>>)
    ELSE IF i + 3 <= Len(s) /\ SubSeq(s, i, i + 3) \in
                {<<110, 117, 108, 108>>, <<116, 114, 117, 101>>}
    THEN [ok |-> TRUE, val |-> JOther, next |-> i + 4]
    ELSE IF i + 4 <= Len(s) /\ SubSeq(s, i, i + 4) = <<102, 97, 108, 115, 101>>
    THEN [ok |-> TRUE, val |-> JOther, next |-> i + 5]
    ELSE IF IsDigit(s[i])
    THEN [ok |-> TRUE, val |-> JOther, next |-> JNumberEnd(s, i)]
    ELSE JFail

JArrayItems(s, i, acc) ==
    Once(JValue(s, i), LAMBDA item :
        IF ~item.ok \/ item.next > Len(s) THEN JFail
        ELSE IF s[item.next] = Comma
        THEN JArrayItems(s, item.next + 1, Append(acc, item.val))
        ELSE IF s[item.next] = RBracket
        THEN [ok |-> TRUE, val |-> JArr(Append(acc, item.val)),
              next |-> item.next + 1]
        ELSE JFail)

JObjectMembers(s, i, acc) ==
    Once(IF i <= Len(s) /\ s[i] = Quote THEN JStringBody(s, i + 1, <<>>)
         ELSE JFail, LAMBDA key :
    Once(IF key.ok /\ key.next <= Len(s) /\ s[key.next] = Colon
         THEN JValue(s, key.next + 1) ELSE JFail, LAMBDA item :
        IF ~item.ok \/ item.next > Len(s) THEN JFail
        ELSE IF s[item.next] = Comma
        THEN JObjectMembers(s, item.next + 1, (key.val.v :> item.val) @@ acc)
        ELSE IF s[item.next] = RBrace
        THEN [ok |-> TRUE, val |-> JObj((key.val.v :> item.val) @@ acc),
              next |-> item.next + 1]
        ELSE JFail))

\* json.Unmarshal(b, &raw) with raw a map[string]interface{}
JSONUnmarshal(b) ==
    Once(JValue(b, 1), LAMBDA r :
        IF r.ok /\ r.next = Len(b) + 1 /\ r.val.t = "obj"
        THEN [err |-> "", raw |-> r.val.v]
        ELSE [err |-> "json", raw |-> <<>>])

\* raw[k].(string), the empty string when absent or of another type
StringField(raw, k) ==
    IF k \in DOMAIN raw /\ raw[k].t = "str" THEN raw[k].v ELSE <<>>

(***************************************************************************)
(* internal/envelope: the agent envelope (bundle).                         *)
(***************************************************************************)
\* "envelope:v1:"
prefix == <<101, 110, 118, 101, 108, 111, 112, 101, 58, 118, 49, 58>>

\* "openenvx-envelope-v1"
hkdfInfo == <<111, 112, 101, 110, 101, 110, 118, 120, 45, 101, 110, 118,
              101, 108, 111, 112, 101, 45, 118, 49>>

unwrapSecretLen == 16
sessionKeyLen == 32

K_session_id == <<115, 101, 115, 115, 105, 111, 110, 95, 105, 100>>
K_created_at == <<99, 114, 101, 97, 116, 101, 100, 95, 97, 116>>
K_expires_at == <<101, 120, 112, 105, 114, 101, 115, 95, 97, 116>>
K_scope == <<115, 99, 111, 112, 101>>
K_unwrap_secret == <<117, 110, 119, 114, 97, 112, 95, 115, 101, 99, 114, 101, 116>>
K_wrapped_session_key == <<119, 114, 97, 112, 112, 101, 100, 95, 115, 101, 115,
                           115, 105, 111, 110, 95, 107, 101, 121>>
K_encrypted_secrets == <<101, 110, 99, 114, 121, 112, 116, 101, 100, 95, 115,
                         101, 99, 114, 101, 116, 115>>

Range(q) == {q[i] : i \in 1..Len(q)}

\* the nil *Envelope
NoEnvelope == [SessionID |-> <<>>, CreatedAt |-> 0, ExpiresAt |-> 0,
               Scope |-> <<>>, UnwrapSecret |-> <<>>,
               WrappedSessionKey |-> <<>>, EncryptedSecrets |-> <<>>]

deriveWrapKey(unwrapSecret) ==
    SubSeq(Sha256(unwrapSecret \o hkdfInfo), 1, sessionKeyLen)

\* a Create that encrypts every secret it is given, in scope or not
CreateAllSecrets(secrets, scope, ttl, c, t) ==
    LET missing == {i \in 1..Len(scope) : scope[i] \notin DOMAIN secrets}
        failed(e, k) == [err |-> e, key |-> k, env |-> NoEnvelope,
                         seals |-> {}, reads |-> 0]
        sessionKey == RandBytes(sessionKeyLen, c)
        unwrapSecret == RandBytes(unwrapSecretLen, c + 1)
        wrapKey == deriveWrapKey(unwrapSecret)
        wrappedSessionKey == SealAESGCM(wrapKey, sessionKey, <<>>, c + 2)
        all == SortedKeys(DOMAIN secrets)
        at(k) == CHOOSE i \in 1..Len(all) : all[i] = k
    IN IF DOMAIN secrets = {} THEN failed("no secrets provided", <<>>)
       ELSE IF Len(scope) = 0 THEN failed("scope is required", <<>>)
       ELSE IF missing # {}
       THEN failed("ErrScopeKeyMissing",
                   scope[CHOOSE i \in missing : \A j \in missing : i <= j])
       ELSE [err |-> "", key |-> <<>>,
             env |-> [SessionID |-> NewUUID(c + 3 + Len(all)),
                      CreatedAt |-> t,
                      ExpiresAt |-> t + ttl,
                      Scope |-> scope,
                      UnwrapSecret |-> unwrapSecret,
                      WrappedSessionKey |-> wrappedSessionKey.ct,
                      EncryptedSecrets |->
                          [k \in DOMAIN secrets |->
                              SealAESGCM(sessionKey, secrets[k], k,
                                         c + 2 + at(k)).ct]],
             seals |-> {SealEntry(wrapKey, sessionKey, <<>>, c + 2)}
                       \cup {SealEntry(sessionKey, secrets[all[i]], all[i],
                                       c + 2 + i) : i \in 1..Len(all)},
             reads |-> 4 + Len(all)]

\* a Create that draws its keys first and looks at the scope before the
\* secrets
CreateScopeFirst(secrets, scope, ttl, c, t) ==
    LET missing == {i \in 1..Len(scope) : scope[i] \notin DOMAIN secrets}
        sessionKey == RandBytes(sessionKeyLen, c)
        unwrapSecret == RandBytes(unwrapSecretLen, c + 1)
        failed(e, k) == [err |-> e, key |-> k, env |-> NoEnvelope,
                         seals |-> {}, reads |-> 2]
        wrapKey == deriveWrapKey(unwrapSecret)
        wrappedSessionKey == SealAESGCM(wrapKey, sessionKey, <<>>, c + 2)
        last(k) == CHOOSE i \in 1..Len(scope) :
                      scope[i] = k /\ \A j \in (i + 1)..Len(scope) : scope[j] # k
    IN IF Len(scope) = 0 THEN failed("scope is required", <<>>)
       ELSE IF DOMAIN secrets = {} THEN failed("no secrets provided", <<>>)
       ELSE IF missing # {}
       THEN failed("ErrScopeKeyMissing",
                   scope[CHOOSE i \in missing : \A j \in missing : i <= j])
       ELSE [err |-> "", key |-> <<>>,
             env |-> [SessionID |-> NewUUID(c + 3 + Len(scope)),
                      CreatedAt |-> t,
                      ExpiresAt |-> t + ttl,
                      Scope |-> scope,
                      UnwrapSecret |-> unwrapSecret,
                      WrappedSessionKey |-> wrappedSessionKey.ct,
                      EncryptedSecrets |->
                          [k \in Range(scope) |->
                              SealAESGCM(sessionKey, secrets[k], k,
                                         c + 2 + last(k)).ct]],
             seals |-> {SealEntry(wrapKey, sessionKey, <<>>, c + 2)}
                       \cup {SealEntry(sessionKey, secrets[scope[i]], scope[i],
                                       c + 2 + i) : i \in 1..Len(scope)},
             reads |-> 4 + Len(scope)]

\* Create(secrets, scope, ttl) at clock value t; c is the number of its
\* first read of crypto/rand.  key: the scope entry named by the error.
Create(secrets, scope, ttl, c, t) ==
    LET missing == {i \in 1..Len(scope) : scope[i] \notin DOMAIN secrets}
        failed(e, k) == [err |-> e, key |-> k, env |-> NoEnvelope,
                         seals |-> {}, reads |-> 0]
        sessionKey == RandBytes(sessionKeyLen, c)
        unwrapSecret == RandBytes(unwrapSecretLen, c + 1)
        wrapKey == deriveWrapKey(unwrapSecret)
        wrappedSessionKey == SealAESGCM(wrapKey, sessionKey, <<>>, c + 2)
        last(k) == CHOOSE i \in 1..Len(scope) :
                      scope[i] = k /\ \A j \in (i + 1)..Len(scope) : scope[j] # k
    IN IF DOMAIN secrets = {} THEN failed("no secrets provided", <<>>)
       ELSE IF Len(scope) = 0 THEN failed("scope is required", <<>>)
       ELSE IF missing # {}
       THEN failed("ErrScopeKeyMissing",
                   scope[CHOOSE i \in missing : \A j \in missing : i <= j])
       ELSE [err |-> "", key |-> <<>>,
             env |-> [SessionID |-> NewUUID(c + 3 + Len(scope)),
                      CreatedAt |-> t,
                      ExpiresAt |-> t + ttl,
                      Scope |-> scope,
                      UnwrapSecret |-> unwrapSecret,
                      WrappedSessionKey |-> wrappedSessionKey.ct,
                      EncryptedSecrets |->
                          [k \in Range(scope) |->
                              SealAESGCM(sessionKey, secrets[k], k,
                                         c + 2 + last(k)).ct]],
             seals |-> {SealEntry(wrapKey, sessionKey, <<>>, c + 2)}
                       \cup {SealEntry(sessionKey, secrets[scope[i]], scope[i],
                                       c + 2 + i) : i \in 1..Len(scope)},
             reads |-> 4 + Len(scope)]

\* an Unwrap that opens the session key before it looks at the clock
UnwrapCryptoFirst(tbl, e, t) ==
    LET wrapKey == deriveWrapKey(e.UnwrapSecret)
        sessionKey == OpenAESGCM(tbl, wrapKey, e.WrappedSessionKey, <<>>)
        plain(k) == OpenAESGCM(tbl, sessionKey.pt, e.EncryptedSecrets[k], k)
    IN IF sessionKey.err # "" THEN [err |-> "ErrDecryption", secrets |-> <<>>]
       ELSE IF After(t, e.ExpiresAt) THEN [err |-> "ErrExpired", secrets |-> <<>>]
       ELSE IF \E k \in DOMAIN e.EncryptedSecrets : plain(k).err # ""
       THEN [err |-> "decrypt entry", secrets |-> <<>>]
       ELSE [err |-> "",
             secrets |-> [k \in DOMAIN e.EncryptedSecrets |-> plain(k).pt]]

\* Envelope.Unwrap at clock value t
Unwrap(tbl, e, t) ==
    LET wrapKey == deriveWrapKey(e.UnwrapSecret)
        sessionKey == OpenAESGCM(tbl, wrapKey, e.WrappedSessionKey, <<>>)
        plain(k) == OpenAESGCM(tbl, sessionKey.pt, e.EncryptedSecrets[k], k)
    IN IF After(t, e.ExpiresAt) THEN [err |-> "ErrExpired", secrets |-> <<>>]
       ELSE IF sessionKey.err # "" THEN [err |-> "ErrDecryption", secrets |-> <<>>]
       ELSE IF \E k \in DOMAIN e.EncryptedSecrets : plain(k).err # ""
       THEN [err |-> "decrypt entry", secrets |-> <<>>]
       ELSE [err |-> "",
             secrets |-> [k \in DOMAIN e.EncryptedSecrets |-> plain(k).pt]]

\* an Inspect that counts only the entries long enough to hold a nonce
InspectCounting(e, t) ==
    [SessionID |-> e.SessionID,
     CreatedAt |-> e.CreatedAt,
     ExpiresAt |-> e.ExpiresAt,
     Scope |-> e.Scope,
     Status |-> IF After(t, e.ExpiresAt) THEN "expired" ELSE "valid",
     KeysIncluded |-> Cardinality({k \in DOMAIN e.EncryptedSecrets :
                                      Len(e.EncryptedSecrets[k]) >= NonceSize})]

\* Envelope.Inspect at clock value t
Inspect(e, t) ==
    [SessionID |-> e.SessionID,
     CreatedAt |-> e.CreatedAt,
     ExpiresAt |-> e.ExpiresAt,
     Scope |-> e.Scope,
     Status |-> IF After(t, e.ExpiresAt) THEN "expired" ELSE "valid",
     KeysIncluded |-> Cardinality(DOMAIN e.EncryptedSecrets)]

\* Envelope.String
EnvelopeString(e) ==
    LET payload ==
            (K_session_id :> JStr(e.SessionID))
         @@ (K_created_at :> JStr(FormatRFC3339(e.CreatedAt)))
         @@ (K_expires_at :> JStr(FormatRFC3339(e.ExpiresAt)))
         @@ (K_scope :> IF Len(e.Scope) = 0 THEN JOther
                        ELSE JArr([i \in 1..Len(e.Scope) |-> JStr(e.Scope[i])]))
         @@ (K_unwrap_secret :> JStr(Base64Encode(e.UnwrapSecret)))
         @@ (K_wrapped_session_key :> JStr(Base64Encode(e.WrappedSessionKey)))
         @@ (K_encrypted_secrets :>
                JObj([k \in DOMAIN e.EncryptedSecrets |->
                        JStr(Base64Encode(e.EncryptedSecrets[k]))]))
    IN prefix \o Base64Encode(JSONMarshal(JObj(payload)))

IsJStr(j) == j.t = "str"

\* a Parse that takes a timestamp it cannot read as the zero time
ParseZeroTimes(s) ==
    LET invalid == [err |-> "ErrInvalidFormat", env |-> NoEnvelope]
        fields(raw) ==
            LET createdAt == ParseRFC3339(StringField(raw, K_created_at))
                expiresAt == ParseRFC3339(StringField(raw, K_expires_at))
                scope == IF K_scope \in DOMAIN raw /\ raw[K_scope].t = "arr"
                         THEN LET strs == SelectSeq(raw[K_scope].v, IsJStr)
                              IN [i \in 1..Len(strs) |-> strs[i].v]
                         ELSE <<>>
                unwrapSecret == Base64Decode(StringField(raw, K_unwrap_secret))
                wrappedSessionKey ==
                    Base64Decode(StringField(raw, K_wrapped_session_key))
                encRaw == IF K_encrypted_secrets \in DOMAIN raw
                             /\ raw[K_encrypted_secrets].t = "obj"
                          THEN raw[K_encrypted_secrets].v ELSE <<>>
                kept == {k \in DOMAIN encRaw :
                            /\ encRaw[k].t = "str"
                            /\ Base64Decode(encRaw[k].v).err = ""}
            IN IF unwrapSecret.err # "" THEN invalid
               ELSE IF wrappedSessionKey.err # "" THEN invalid
               ELSE [err |-> "",
                     env |-> [SessionID |-> StringField(raw, K_session_id),
                              CreatedAt |-> createdAt.t,
                              ExpiresAt |-> expiresAt.t,
                              Scope |-> scope,
                              UnwrapSecret |-> unwrapSecret.bytes,
                              WrappedSessionKey |-> wrappedSessionKey.bytes,
                              EncryptedSecrets |->
                                  [k \in kept |->
                                      Base64Decode(encRaw[k].v).bytes]]]
    IN IF ~HasPrefix(s, prefix) THEN invalid
       ELSE Once(Base64Decode(SubSeq(s, Len(prefix) + 1, Len(s))), LAMBDA payload :
            IF payload.err # "" THEN invalid
            ELSE Once(JSONUnmarshal(payload.bytes), LAMBDA doc :
                 IF doc.err # "" THEN invalid ELSE fields(doc.raw)))

\* a Parse that fails on an entry of encrypted_secrets it cannot decode
ParseEveryEntry(s) ==
    LET invalid == [err |-> "ErrInvalidFormat", env |-> NoEnvelope]
        fields(raw) ==
            LET createdAt == ParseRFC3339(StringField(raw, K_created_at))
                expiresAt == ParseRFC3339(StringField(raw, K_expires_at))
                scope == IF K_scope \in DOMAIN raw /\ raw[K_scope].t = "arr"
                         THEN LET strs == SelectSeq(raw[K_scope].v, IsJStr)
                              IN [i \in 1..Len(strs) |-> strs[i].v]
                         ELSE <<>>
                unwrapSecret == Base64Decode(StringField(raw, K_unwrap_secret))
                wrappedSessionKey ==
                    Base64Decode(StringField(raw, K_wrapped_session_key))
                encRaw == IF K_encrypted_secrets \in DOMAIN raw
                             /\ raw[K_encrypted_secrets].t = "obj"
                          THEN raw[K_encrypted_secrets].v ELSE <<>>
                kept == {k \in DOMAIN encRaw :
                            /\ encRaw[k].t = "str"
                            /\ Base64Decode(encRaw[k].v).err = ""}
            IN IF createdAt.err # "" THEN invalid
               ELSE IF expiresAt.err # "" THEN invalid
               ELSE IF unwrapSecret.err # "" THEN invalid
               ELSE IF wrappedSessionKey.err # "" THEN invalid
               ELSE IF kept # DOMAIN encRaw THEN invalid
               ELSE [err |-> "",
                     env |-> [SessionID |-> StringField(raw, K_session_id),
                              CreatedAt |-> createdAt.t,
                              ExpiresAt |-> expiresAt.t,
                              Scope |-> scope,
                              UnwrapSecret |-> unwrapSecret.bytes,
                              WrappedSessionKey |-> wrappedSessionKey.bytes,
                              EncryptedSecrets |->
                                  [k \in kept |->
                                      Base64Decode(encRaw[k].v).bytes]]]
    IN IF ~HasPrefix(s, prefix) THEN invalid
       ELSE Once(Base64Decode(SubSeq(s, Len(prefix) + 1, Len(s))), LAMBDA payload :
            IF payload.err # "" THEN invalid
            ELSE Once(JSONUnmarshal(payload.bytes), LAMBDA doc :
                 IF doc.err # "" THEN invalid ELSE fields(doc.raw)))

\* Parse(s)
Parse(s) ==
    LET invalid == [err |-> "ErrInvalidFormat", env |-> NoEnvelope]
        fields(raw) ==
            LET createdAt == ParseRFC3339(StringField(raw, K_created_at))
                expiresAt == ParseRFC3339(StringField(raw, K_expires_at))
                scope == IF K_scope \in DOMAIN raw /\ raw[K_scope].t = "arr"
                         THEN LET strs == SelectSeq(raw[K_scope].v, IsJStr)
                              IN [i \in 1..Len(strs) |-> strs[i].v]
                         ELSE <<>>
                unwrapSecret == Base64Decode(StringField(raw, K_unwrap_secret))
                wrappedSessionKey ==
                    Base64Decode(StringField(raw, K_wrapped_session_key))
                encRaw == IF K_encrypted_secrets \in DOMAIN raw
                             /\ raw[K_encrypted_secrets].t = "obj"
                          THEN raw[K_encrypted_secrets].v ELSE <<>>
                kept == {k \in DOMAIN encRaw :
                            /\ encRaw[k].t = "str"
                            /\ Base64Decode(encRaw[k].v).err = ""}
            IN IF createdAt.err # "" THEN invalid
               ELSE IF expiresAt.err # "" THEN invalid
               ELSE IF unwrapSecret.err # "" THEN invalid
               ELSE IF wrappedSessionKey.err # "" THEN invalid
               ELSE [err |-> "",
                     env |-> [SessionID |-> StringField(raw, K_session_id),
                              CreatedAt |-> createdAt.t,
                              ExpiresAt |-> expiresAt.t,
                              Scope |-> scope,
                              UnwrapSecret |-> unwrapSecret.bytes,
                              WrappedSessionKey |-> wrappedSessionKey.bytes,
                              EncryptedSecrets |->
                                  [k \in kept |->
                                      Base64Decode(encRaw[k].v).bytes]]]
    IN IF ~HasPrefix(s, prefix) THEN invalid
       ELSE Once(Base64Decode(SubSeq(s, Len(prefix) + 1, Len(s))), LAMBDA payload :
            IF payload.err # "" THEN invalid
            ELSE Once(JSONUnmarshal(payload.bytes), LAMBDA doc :
                 IF doc.err # "" THEN invalid ELSE fields(doc.raw)))

(***************************************************************************)
(* Inputs of the agent envelope protocol.                                  *)
(***************************************************************************)
NameA == <<65>>
NameB == <<66>>

\* the maps {}, {"A": "1"}, {"A": "1", "B": "2"}
SecretMaps == {<<>>, (NameA :> <<49>>), (NameA :> <<49>>) @@ (NameB :> <<50>>)}

Scopes == {<<>>, <<NameA>>, <<NameB>>, <<NameA, NameB>>, <<NameB, NameA>>}

\* minus one second, two ticks, one second, one second and two ticks
TTLs == {0 - TicksPerSecond, 2, TicksPerSecond, TicksPerSecond + 2}

\* what may happen to the bytes of an envelope; the metadata (session id,
\* timestamps, scope, number of entries) stays as it is
Corruptions == {"wrappedKey", "unwrapSecret", "ciphertext", "shortCiphertext",
                "swapped"}

FlipByte(b, i) == [b EXCEPT ![i] = (@ + 1) % 256]

CorruptEnvelope(e, kind) ==
    LET ks == SortedKeys(DOMAIN e.EncryptedSecrets)
        k1 == ks[1]
        k2 == ks[Len(ks)]
    IN CASE kind = "wrappedKey" ->
              [e EXCEPT !.WrappedSessionKey = FlipByte(@, Len(@))]
         [] kind = "unwrapSecret" ->
              [e EXCEPT !.UnwrapSecret = FlipByte(@, 1)]
         [] kind = "ciphertext" ->
              [e EXCEPT !.EncryptedSecrets[k2] = FlipByte(@, NonceSize + 1)]
         [] kind = "shortCiphertext" ->
              [e EXCEPT !.EncryptedSecrets[k1] = SubSeq(@, 1, NonceSize - 1)]
         [] kind = "swapped" ->
              [e EXCEPT !.EncryptedSecrets[k1] = e.EncryptedSecrets[k2],
                        !.EncryptedSecrets[k2] = e.EncryptedSecrets[k1]]

NoCall == "not called"

Subject(who) == IF who = "bundle" THEN bundle ELSE twin.env

\* what may happen to a token on its way to the consumer
TokenDamages == {"otherVersion", "noPrefix", "payloadNotBase64", "notJSON",
                 "noCreatedAt", "badCreatedAt", "noExpiresAt", "badExpiresAt",
                 "secretNotBase64", "secretNotString"}

\* the damages that change one entry of encrypted_secrets
SecretDamages == {"secretNotBase64", "secretNotString"}

\* the first name of a set of names
FirstName(S) == CHOOSE k \in S : \A other \in S : other = k \/ LexLess(k, other)

\* the token s with one damage: another prefix, a payload that is not
\* base64 or not JSON, a timestamp left out or not a timestamp, or the
\* first entry of encrypted_secrets not base64 or not a string
DamageToken(s, kind) ==
    LET rest == SubSeq(s, Len(prefix) + 1, Len(s))
        body == Base64Decode(rest).bytes
        raw == JSONUnmarshal(body).raw
        armor(j) == prefix \o Base64Encode(JSONMarshal(JObj(j)))
        without(k) == [x \in DOMAIN raw \ {k} |-> raw[x]]
        secrets == raw[K_encrypted_secrets].v
        entry(j) == armor([raw EXCEPT ![K_encrypted_secrets] =
                              JObj([secrets EXCEPT
                                       ![FirstName(DOMAIN secrets)] = j])])
    IN CASE kind = "otherVersion" -> <<101, 110, 118, 101, 108, 111, 112, 101, 58, 118, 50, 58>> \o rest
         [] kind = "noPrefix" -> rest
         [] kind = "payloadNotBase64" -> [s EXCEPT ![Len(prefix) + 1] = Bang]
         [] kind = "notJSON" -> prefix \o Base64Encode(Tail(body))
         [] kind = "noCreatedAt" -> armor(without(K_created_at))
         [] kind = "badCreatedAt" ->
                armor([raw EXCEPT ![K_created_at] = JStr(<<116, 111, 109, 111, 114, 114, 111, 119>>)])
         [] kind = "noExpiresAt" -> armor(without(K_expires_at))
         [] kind = "badExpiresAt" ->
                armor([raw EXCEPT ![K_expires_at] = JOther])
         [] kind = "secretNotBase64" -> entry(JStr(<<Bang>>))
         [] kind = "secretNotString" -> entry(JOther)

NoHanded == [kind |-> "none", s |-> <<>>, err |-> NoCall, env |-> NoEnvelope,
             at |-> 0, unwrapErr |-> NoCall, secrets |-> <<>>]

(***************************************************************************)
(* Actions of the agent envelope protocol.                                 *)
(***************************************************************************)
\* envelope create: Create, then String; the token goes to the consumer
CreateEnvelope(secrets, scope, ttl) ==
    /\ createRes.err = NoCall
    /\ now < 2 * TicksPerSecond
    /\ \E r \in {Create(secrets, scope, ttl, rnd, now)} :
          /\ createRes' = [secrets |-> secrets,
                           scope |-> scope, ttl |-> ttl, at |-> now,
                           err |-> r.err, key |-> r.key, env |-> r.env,
                           reads |-> r.reads, seals |-> r.seals]
          /\ rnd' = rnd + r.reads
          /\ sealed' = sealed \cup r.seals
          /\ token' = IF r.err = "" THEN EnvelopeString(r.env) ELSE token
    /\ UNCHANGED <<now, bundle, twin, parseErr, unwrapRes, infoRes>>
    /\ UNCHANGED handed
    /\ UNCHANGED engineVars
    /\ UNCHANGED auditVars
    /\ UNCHANGED keyVars
    /\ UNCHANGED cliVars

\* the consumer parses the token it was handed
ParseToken ==
    /\ createRes.err = ""
    /\ parseErr = NoCall
    /\ handed = NoHanded
    /\ \E r \in {Parse(token)} :
          /\ parseErr' = r.err
          /\ bundle' = r.env
    /\ UNCHANGED <<now, rnd, sealed, createRes, token, twin, unwrapRes, infoRes>>
    /\ UNCHANGED handed
    /\ UNCHANGED engineVars
    /\ UNCHANGED auditVars
    /\ UNCHANGED keyVars
    /\ UNCHANGED cliVars

\* a second envelope: the consumer's one with some of its bytes changed
Corrupt(kind) ==
    /\ parseErr = ""
    /\ twin.kind = "none"
    /\ kind = "swapped" => Cardinality(DOMAIN bundle.EncryptedSecrets) >= 2
    /\ twin' = [kind |-> kind, env |-> CorruptEnvelope(bundle, kind)]
    /\ UNCHANGED <<now, rnd, sealed, createRes, token, bundle, parseErr,
                   unwrapRes, infoRes>>
    /\ UNCHANGED handed
    /\ UNCHANGED engineVars
    /\ UNCHANGED auditVars
    /\ UNCHANGED keyVars
    /\ UNCHANGED cliVars

UnwrapEnvelope(who) ==
    /\ parseErr = ""
    /\ who = "twin" => twin.kind # "none"
    /\ \E r \in {Unwrap(sealed, Subject(who), now)} :
          unwrapRes' = [who |-> who, err |-> r.err, secrets |-> r.secrets]
    /\ UNCHANGED <<now, rnd, sealed, createRes, token, bundle, twin, parseErr,
                   infoRes>>
    /\ UNCHANGED handed
    /\ UNCHANGED engineVars
    /\ UNCHANGED auditVars
    /\ UNCHANGED keyVars
    /\ UNCHANGED cliVars

InspectEnvelope(who) ==
    /\ parseErr = ""
    /\ who = "twin" => twin.kind # "none"
    /\ infoRes' = [who |-> who, info |-> Inspect(Subject(who), now)]
    /\ UNCHANGED <<now, rnd, sealed, createRes, token, bundle, twin, parseErr,
                   unwrapRes>>
    /\ UNCHANGED handed
    /\ UNCHANGED engineVars
    /\ UNCHANGED auditVars
    /\ UNCHANGED keyVars
    /\ UNCHANGED cliVars

\* the consumer is handed a damaged token instead and parses it
ParseDamaged(kind) ==
    /\ createRes.err = ""
    /\ parseErr = NoCall
    /\ handed = NoHanded
    /\ kind \in SecretDamages => DOMAIN createRes.env.EncryptedSecrets # {}
    /\ \E s \in {DamageToken(token, kind)} :
       \E r \in {Parse(s)} :
          handed' = [NoHanded EXCEPT !.kind = kind, !.s = s, !.err = r.err,
                                     !.env = r.env]
    /\ UNCHANGED <<now, rnd, sealed, createRes, token, bundle, twin, parseErr,
                   unwrapRes, infoRes>>
    /\ UNCHANGED engineVars
    /\ UNCHANGED auditVars
    /\ UNCHANGED keyVars
    /\ UNCHANGED cliVars

\* the consumer unwraps the envelope it parsed from the damaged token
UnwrapDamaged ==
    /\ handed.err = ""
    /\ handed.unwrapErr = NoCall
    /\ \E r \in {Unwrap(sealed, handed.env, now)} :
          handed' = [handed EXCEPT !.at = now, !.unwrapErr = r.err,
                                   !.secrets = r.secrets]
    /\ UNCHANGED <<now, rnd, sealed, createRes, token, bundle, twin, parseErr,
                   unwrapRes, infoRes>>
    /\ UNCHANGED engineVars
    /\ UNCHANGED auditVars
    /\ UNCHANGED keyVars
    /\ UNCHANGED cliVars

\* time passes; what Unwrap and Inspect returned belongs to the instant of
\* the call and is forgotten
Tick ==
    /\ now < MaxTime
    /\ now' = now + 1
    /\ unwrapRes' = [who |-> "none", err |-> "", secrets |-> <<>>]
    /\ infoRes' = [who |-> "none", info |-> Inspect(NoEnvelope, 0)]
    /\ UNCHANGED <<rnd, sealed, createRes, token, bundle, twin, parseErr>>
    /\ UNCHANGED handed
    /\ UNCHANGED engineVars
    /\ UNCHANGED auditVars
    /\ UNCHANGED keyVars
    /\ UNCHANGED cliVars

(***************************************************************************)
(* internal/audit: the hash-chained operation log.                         *)
(*                                                                         *)
(* The log file is its bytes.  sha256.Sum256 is the digest Sha256 above.   *)
(***************************************************************************)
Newline == 10
CarriageReturn == 13
Dot == 46

\* the nine digits of the fraction r / TicksPerSecond of a second
RECURSIVE FracDigits(_, _)
FracDigits(r, n) ==
    IF n = 0 THEN <<>>
    ELSE <<Digit((r * 10) \div TicksPerSecond)>>
         \o FracDigits((r * 10) % TicksPerSecond, n - 1)

\* s without its trailing "0" characters
TrimZeros(s) ==
    SubSeq(s, 1, Len(s) - (FirstOf([i \in 1..Len(s) |-> s[Len(s) + 1 - i]], 1,
                                   (0..255) \ {48}) - 1))

\* Time.MarshalJSON: layout time.RFC3339Nano, the fraction without its
\* trailing zeros and left out when it is zero
FormatRFC3339Nano(t) ==
    LET whole == FormatRFC3339(t)
        frac == TrimZeros(FracDigits(t % TicksPerSecond, 9))
    IN IF Len(frac) = 0 THEN whole
       ELSE SubSeq(whole, 1, 19) \o <<Dot>> \o frac \o <<90>>

\* the time of a zero time.Time, which no clock reading equals
ZeroTime == 0 - 1

\* Time.UnmarshalJSON: an RFC3339 timestamp, with or without a fraction
ParseRFC3339Nano(s) ==
    IF Len(s) = 20 THEN ParseRFC3339(s)
    ELSE IF Len(s) > 21 /\ Len(s) <= 30 /\ s[20] = Dot /\ s[Len(s)] = 90
            /\ \A i \in 21..(Len(s) - 1) : IsDigit(s[i])
    THEN LET whole == ParseRFC3339(SubSeq(s, 1, 19) \o <<90>>)
             digits == SubSeq(s, 21, Len(s) - 1)
                       \o [i \in 1..(30 - Len(s)) |-> 48]
             ticks == Cardinality({r \in 1..(TicksPerSecond - 1) :
                          LET d == FracDigits(r, 9)
                          IN d = digits \/ LexLess(d, digits)})
         IN IF whole.err # "" THEN whole
            ELSE [err |-> "", t |-> whole.t + ticks]
    ELSE [err |-> "parse", t |-> 0]

\* hex.EncodeToString
HexEncode(b) ==
    [i \in 1..(2 * Len(b)) |-> IF i % 2 = 1 THEN HexDigit(b[(i + 1) \div 2] \div 16)
                               ELSE HexDigit(b[i \div 2] % 16)]

\* hex.EncodeToString(sha256.Sum256(line))
HashLine(line) == HexEncode(Sha256(line))

\* the json names of the fields of Entry
K_ts == <<116, 115>>
K_op == <<111, 112>>
K_sid == <<115, 105, 100>>
K_ttl == <<116, 116, 108>>
K_cmd == <<99, 109, 100>>
K_exit == <<101, 120, 105, 116>>
K_tool == <<116, 111, 111, 108>>
K_prev_hash == <<112, 114, 101, 118, 95, 104, 97, 115, 104>>

\* the Op values "set", "envelope_create" and "envelope_run"
OpSet == <<115, 101, 116>>
OpEnvelopeCreate == <<101, 110, 118, 101, 108, 111, 112, 101, 95, 99, 114, 101, 97, 116, 101>>
OpEnvelopeRun == <<101, 110, 118, 101, 108, 111, 112, 101, 95, 114, 117, 110>>

\* the zero Entry
NoEntry == [Timestamp |-> ZeroTime, Op |-> <<>>, Scope |-> <<>>,
            SessionID |-> <<>>, TTL |-> <<>>, Command |-> <<>>, ExitCode |-> 0,
            Tool |-> <<>>, PrevHash |-> <<>>]

\* strconv.Itoa of a number that is not negative
RECURSIVE Decimal(_)
Decimal(n) == IF n < 10 THEN <<Digit(n)>>
              ELSE Decimal(n \div 10) \o <<Digit(n % 10)>>

\* json.Marshal(entry): the fields in the order of the struct, those tagged
\* omitempty left out when empty
MarshalEntry(e) ==
    LET field(k, v) == <<Quote>> \o k \o <<Quote, Colon>> \o v
        str(k, v) == field(k, JSONMarshal(JStr(v)))
        opt(k, v) == IF Len(v) = 0 THEN <<>> ELSE <<str(k, v)>>
        members ==
            <<str(K_ts, FormatRFC3339Nano(e.Timestamp)), str(K_op, e.Op)>>
            \o (IF Len(e.Scope) = 0 THEN <<>>
                ELSE <<field(K_scope,
                             JSONMarshal(JArr([i \in 1..Len(e.Scope) |->
                                                  JStr(e.Scope[i])])))>>)
            \o opt(K_sid, e.SessionID)
            \o opt(K_ttl, e.TTL)
            \o opt(K_cmd, e.Command)
            \o (IF e.ExitCode = 0 THEN <<>>
                ELSE <<field(K_exit, Decimal(e.ExitCode))>>)
            \o opt(K_tool, e.Tool)
            \o <<str(K_prev_hash, e.PrevHash)>>
    IN <<LBrace>> \o JoinSeqs(members, <<Comma>>) \o <<RBrace>>

\* json.Unmarshal(line, &entry): [err, e].  A JSON null, which leaves a
\* field as it is, and a number for exit are read as no value.
UnmarshalEntry(line) ==
    LET failed(why) == [err |-> why, e |-> NoEntry]
        fields(raw) ==
            LET isStr(k) == k \notin DOMAIN raw \/ raw[k].t = "str"
                ts == IF K_ts \in DOMAIN raw /\ raw[K_ts].t = "str"
                      THEN ParseRFC3339Nano(raw[K_ts].v)
                      ELSE [err |-> "", t |-> ZeroTime]
                scopeOK == \/ K_scope \notin DOMAIN raw
                           \/ /\ raw[K_scope].t = "arr"
                              /\ \A i \in 1..Len(raw[K_scope].v) :
                                    raw[K_scope].v[i].t = "str"
            IN IF \/ ~(\A k \in {K_ts, K_op, K_sid, K_ttl, K_cmd, K_tool,
                                 K_prev_hash} : isStr(k))
                  \/ ~scopeOK
                  \/ (K_exit \in DOMAIN raw /\ raw[K_exit].t # "other")
               THEN failed("json: cannot unmarshal")
               ELSE IF ts.err # "" THEN failed("parsing time")
               ELSE [err |-> "",
                     e |-> [Timestamp |-> ts.t,
                            Op |-> StringField(raw, K_op),
                            Scope |-> IF K_scope \in DOMAIN raw
                                      THEN [i \in 1..Len(raw[K_scope].v) |->
                                               raw[K_scope].v[i].v]
                                      ELSE <<>>,
                            SessionID |-> StringField(raw, K_sid),
                            TTL |-> StringField(raw, K_ttl),
                            Command |-> StringField(raw, K_cmd),
                            ExitCode |-> 0,
                            Tool |-> StringField(raw, K_tool),
                            PrevHash |-> StringField(raw, K_prev_hash)]]
    IN Once(JValue(line, 1), LAMBDA r :
           IF ~r.ok \/ r.next # Len(line) + 1 THEN failed("invalid character")
           ELSE IF line = <<110, 117, 108, 108>> THEN [err |-> "", e |-> NoEntry]
           ELSE IF r.val.t # "obj" THEN failed("json: cannot unmarshal")
           ELSE fields(r.val.v))

\* a workdir without the directory .envx and without the log file
NoFile == [dir |-> FALSE, exists |-> FALSE, bytes |-> <<>>]

\* the positions from i on of the newline characters of b
RECURSIVE NewlinesFrom(_, _)
NewlinesFrom(b, i) ==
    Once(FirstOf(b, i, {Newline}), LAMBDA q :
        IF q > Len(b) THEN <<>> ELSE <<q>> \o NewlinesFrom(b, q + 1))

\* bufio.ScanLines: a line without one trailing carriage return
DropCR(line) ==
    IF Len(line) > 0 /\ line[Len(line)] = CarriageReturn
    THEN SubSeq(line, 1, Len(line) - 1) ELSE line

\* every scanner.Text() of a bufio.Scanner over b: the lines without their
\* newline, a last line without newline included when it is not empty
ScanLines(b) ==
    Once(NewlinesFrom(b, 1), LAMBDA nl :
        LET start(j) == IF j = 1 THEN 1 ELSE nl[j - 1] + 1
            ended == [j \in 1..Len(nl) |->
                         DropCR(SubSeq(b, start(j), nl[j] - 1))]
            rest == start(Len(nl) + 1)
        IN IF rest <= Len(b)
           THEN Append(ended, DropCR(SubSeq(b, rest, Len(b))))
           ELSE ended)

\* a lastHash that never finds a line
lastHashOfNothing(file) == <<>>

\* a lastHash that hashes the first line of the file
lastHashOfFirst(file) ==
    IF ~file.exists THEN <<>>
    ELSE Once(ScanLines(file.bytes), LAMBDA lines :
             IF Len(lines) = 0 \/ lines[1] = <<>> THEN <<>>
             ELSE HashLine(lines[1]))

\* lastHash(workdir)
lastHash(file) ==
    IF ~file.exists THEN <<>>
    ELSE Once(ScanLines(file.bytes), LAMBDA lines :
             IF Len(lines) = 0 \/ lines[Len(lines)] = <<>> THEN <<>>
             ELSE HashLine(lines[Len(lines)]))

\* the members of a set of numbers in ascending order
RECURSIVE Ascending(_)
Ascending(S) ==
    IF S = {} THEN <<>>
    ELSE LET m == CHOOSE x \in S : \A y \in S : x <= y
         IN <<m>> \o Ascending(S \ {m})

NoVerifyResult == [TotalEntries |-> 0, Breaks |-> <<>>, FirstModified |-> 0]

\* a Verify that fails when it finds a break
VerifyStrict(file) ==
    IF ~file.exists THEN [err |-> "ErrNoAuditLog", result |-> NoVerifyResult]
    ELSE Once(ScanLines(file.bytes), LAMBDA lines :
        LET result == [NoVerifyResult EXCEPT !.TotalEntries = Len(lines)]
            broken(i) == Once(UnmarshalEntry(lines[i]), LAMBDA entry :
                              \/ entry.err # ""
                              \/ entry.e.PrevHash # HashLine(lines[i - 1]))
        IN IF Len(lines) = 0 THEN [err |-> "", result |-> result]
           ELSE Once(UnmarshalEntry(lines[1]), LAMBDA firstEntry :
               IF firstEntry.err # ""
               THEN [err |-> "", result |-> [result EXCEPT !.FirstModified = 1]]
               ELSE Once(Ascending({i \in 2..Len(lines) : broken(i)}),
                         LAMBDA later :
                   IF Len(later) > 0 \/ firstEntry.e.PrevHash # <<>>
                   THEN [err |-> "chain broken", result |-> NoVerifyResult]
                   ELSE [err |-> "", result |-> result])))

\* a Verify without the rule for the first entry
VerifyLaterOnly(file) ==
    IF ~file.exists THEN [err |-> "ErrNoAuditLog", result |-> NoVerifyResult]
    ELSE Once(ScanLines(file.bytes), LAMBDA lines :
        LET result == [NoVerifyResult EXCEPT !.TotalEntries = Len(lines)]
            broken(i) == Once(UnmarshalEntry(lines[i]), LAMBDA entry :
                              \/ entry.err # ""
                              \/ entry.e.PrevHash # HashLine(lines[i - 1]))
        IN IF Len(lines) = 0 THEN [err |-> "", result |-> result]
           ELSE Once(UnmarshalEntry(lines[1]), LAMBDA firstEntry :
               IF firstEntry.err # ""
               THEN [err |-> "", result |-> [result EXCEPT !.FirstModified = 1]]
               ELSE [err |-> "",
                     result |->
                        [result EXCEPT !.Breaks =
                            Ascending({i \in 2..Len(lines) : broken(i)})]]))

\* Verify(workdir): [err, result]
Verify(file) ==
    IF ~file.exists THEN [err |-> "ErrNoAuditLog", result |-> NoVerifyResult]
    ELSE Once(ScanLines(file.bytes), LAMBDA lines :
        LET result == [NoVerifyResult EXCEPT !.TotalEntries = Len(lines)]
            broken(i) == Once(UnmarshalEntry(lines[i]), LAMBDA entry :
                              \/ entry.err # ""
                              \/ entry.e.PrevHash # HashLine(lines[i - 1]))
        IN IF Len(lines) = 0 THEN [err |-> "", result |-> result]
           ELSE Once(UnmarshalEntry(lines[1]), LAMBDA firstEntry :
               IF firstEntry.err # ""
               THEN [err |-> "", result |-> [result EXCEPT !.FirstModified = 1]]
               ELSE [err |-> "",
                     result |->
                        [result EXCEPT !.Breaks =
                            (IF firstEntry.e.PrevHash # <<>> THEN <<1>> ELSE <<>>)
                            \o Ascending({i \in 2..Len(lines) : broken(i)})]]))

\* strings.TrimSpace(line) == ""
IsBlank(line) == \A i \in 1..Len(line) : line[i] \in {9, 10, 11, 12, 13, 32}

\* the EntrySummary of an entry
Summary(e) ==
    [Timestamp |-> IF e.Timestamp = ZeroTime
                   THEN <<48, 48, 48, 49>> \o SubSeq(FormatRFC3339(0), 5, 20)
                   ELSE FormatRFC3339(e.Timestamp),
     Op |-> e.Op, Scope |-> e.Scope, SessionID |-> e.SessionID, TTL |-> e.TTL,
     Command |-> e.Command, ExitCode |-> e.ExitCode, Tool |-> e.Tool]

\* Show(workdir, lastN): [err, entries]
Show(file, lastN) ==
    IF ~file.exists THEN [err |-> "ErrNoAuditLog", entries |-> <<>>]
    ELSE Once(ScanLines(file.bytes), LAMBDA all :
        LET lines == IF lastN > 0 /\ Len(all) > lastN
                     THEN SubSeq(all, Len(all) - lastN + 1, Len(all))
                     ELSE all
            parsed == [i \in 1..Len(lines) |->
                          IF IsBlank(lines[i])
                          THEN [err |-> "blank", e |-> NoEntry]
                          ELSE UnmarshalEntry(lines[i])]
        IN Once(SelectSeq(parsed, ErrNone), LAMBDA kept :
               [err |-> "",
                entries |-> [i \in 1..Len(kept) |-> Summary(kept[i].e)]]))

(***************************************************************************)
(* The callers of Log, what they log, and what is done to the file from    *)
(* outside.                                                                *)
(***************************************************************************)
MaxAppends == 3

\* callers 1 and 2 are goroutines of process 1, caller 3 is another process
Callers == {1, 2, 3}
Processes == {1, 2}
ProcessOf(c) == IF c = 3 THEN 2 ELSE 1
InProcess(p) == {c \in Callers : ProcessOf(c) = p}

\* the op and the options of a call of Log: caller 1 logs a set without
\* options, the others an envelope run with every option
Request(c) ==
    IF c = 1
    THEN [op |-> OpSet, scope |-> <<>>, sid |-> <<>>, ttl |-> <<>>, cmd |-> <<>>]
    ELSE [op |-> OpEnvelopeRun, scope |-> <<NameA, NameB>>, sid |-> <<115, 45, 49>>,
          ttl |-> <<49, 104>>, cmd |-> <<115, 104, 32, 45, 99, 32, 34, 97, 92, 98, 34>>]

\* a mutex that never makes a caller wait
NeverHeld(m) == TRUE

\* mu.Lock() returns when no caller holds the mutex
Unlocked(m) == m = 0

NoLog == [pc |-> "idle", entry |-> NoEntry, read |-> NoFile]
NoTamper == [kind |-> "none", k |-> 0, variant |-> "none", lines |-> <<>>,
             after |-> 0]
NoQuery == [op |-> "none", n |-> 0, err |-> "", result |-> NoVerifyResult,
            entries |-> <<>>, file |-> NoFile]

\* fmt.Fprintln of every line
RECURSIVE WriteLines(_)
WriteLines(lines) ==
    IF Len(lines) = 0 THEN <<>>
    ELSE lines[1] \o <<Newline>> \o WriteLines(Tail(lines))

\* what a tamperer writes in place of a line or between two lines
TamperKinds == {"overwrite", "delete", "insert"}
TamperVariants == {"forged", "garbage", "blank"}
Garbage == <<116, 97, 109, 112, 101, 114, 101, 100>>
OpDelete == <<100, 101, 108, 101, 116, 101>>

\* the line a tamperer puts at position k of lines: the entry of line k
\* with another op when it overwrites, an entry linked to line k - 1 when it
\* inserts
TamperLine(lines, kind, k, variant, t) ==
    IF variant = "garbage" THEN Garbage
    ELSE IF variant = "blank" THEN <<>>
    ELSE IF kind = "overwrite"
    THEN MarshalEntry([UnmarshalEntry(lines[k]).e EXCEPT !.Op = OpDelete])
    ELSE MarshalEntry([NoEntry EXCEPT
                          !.Timestamp = t, !.Op = OpDelete,
                          !.PrevHash = IF k = 1 THEN <<>>
                                       ELSE HashLine(lines[k - 1])])

\* the lines of the file after the tamperer rewrote it
TamperedLines(lines, kind, k, variant, t) ==
    LET before == SubSeq(lines, 1, k - 1)
        from == SubSeq(lines, k, Len(lines))
        new == TamperLine(lines, kind, k, variant, t)
    IN IF kind = "delete" THEN before \o Tail(from)
       ELSE IF kind = "insert" THEN before \o <<new>> \o from
       ELSE before \o <<new>> \o Tail(from)

\* a file opened with O_TRUNC in place of O_APPEND
WriteOver(bytes, line) == line \o <<Newline>>

\* os.OpenFile(path, O_APPEND|O_CREATE|O_WRONLY) and fmt.Fprintln(f, line)
AppendLine(bytes, line) == bytes \o line \o <<Newline>>

\* Log, up to the entry: the mutex is taken, the directory made, the last
\* line of the file hashed and the options applied
LogBegin(c) ==
    /\ calls[c].pc = "idle"
    /\ Unlocked(mu[ProcessOf(c)])
    /\ Len(appended) + Cardinality({d \in Callers : calls[d].pc = "locked"})
          < MaxAppends
    /\ mu' = [mu EXCEPT ![ProcessOf(c)] = c]
    /\ logFile' = [logFile EXCEPT !.dir = TRUE]
    /\ \E h \in {lastHash(logFile)} :
          calls' = [calls EXCEPT ![c] =
                       [pc |-> "locked",
                        entry |-> [NoEntry EXCEPT
                                      !.Timestamp = now,
                                      !.Op = Request(c).op,
                                      !.PrevHash = h,
                                      !.Scope = Request(c).scope,
                                      !.SessionID = Request(c).sid,
                                      !.TTL = Request(c).ttl,
                                      !.Command = Request(c).cmd],
                        read |-> logFile]]
    /\ auditRes' = NoQuery
    /\ UNCHANGED <<appended, tamper>>
    /\ UNCHANGED <<now, rnd, sealed>>
    /\ UNCHANGED engineVars
    /\ UNCHANGED agentVars
    /\ UNCHANGED keyVars
    /\ UNCHANGED cliVars

\* Log, from json.Marshal on: the line is appended to the file, created
\* when absent, and the mutex released
LogWrite(c) ==
    /\ calls[c].pc = "locked"
    /\ \E line \in {MarshalEntry(calls[c].entry)} :
          /\ logFile' = [dir |-> TRUE, exists |-> TRUE,
                         bytes |-> AppendLine(logFile.bytes, line)]
          /\ appended' = Append(appended,
                                [caller |-> c, entry |-> calls[c].entry,
                                 line |-> line, read |-> calls[c].read,
                                 size |-> Len(logFile.bytes)])
    /\ mu' = [mu EXCEPT ![ProcessOf(c)] = 0]
    /\ calls' = [calls EXCEPT ![c] = NoLog]
    /\ auditRes' = NoQuery
    /\ UNCHANGED tamper
    /\ UNCHANGED <<now, rnd, sealed>>
    /\ UNCHANGED engineVars
    /\ UNCHANGED agentVars
    /\ UNCHANGED keyVars
    /\ UNCHANGED cliVars

\* no call of Log is under way
Quiet == \A c \in Callers : calls[c].pc = "idle"

\* someone rewrites the log file, once, while no call of Log is under way
Tamper(kind, k, variant) ==
    /\ tamper = NoTamper
    /\ Quiet
    /\ logFile.exists
    /\ kind = "delete" => variant = "blank"
    /\ kind = "insert" => variant # "blank"
    /\ \E lines \in {ScanLines(logFile.bytes)} :
          /\ k \in 1..Len(lines)
          /\ logFile' = [logFile EXCEPT !.bytes =
                            WriteLines(TamperedLines(lines, kind, k, variant,
                                                     now))]
          /\ tamper' = [kind |-> kind, k |-> k, variant |-> variant,
                        lines |-> lines, after |-> Len(appended)]
    /\ auditRes' = NoQuery
    /\ UNCHANGED <<mu, calls, appended>>
    /\ UNCHANGED <<now, rnd, sealed>>
    /\ UNCHANGED engineVars
    /\ UNCHANGED agentVars
    /\ UNCHANGED keyVars
    /\ UNCHANGED cliVars

\* Verify(workdir), between two calls of Log
VerifyLog ==
    /\ auditRes = NoQuery
    /\ Quiet
    /\ \E r \in {Verify(logFile)} :
          auditRes' = [NoQuery EXCEPT !.op = "verify", !.err = r.err,
                                      !.result = r.result, !.file = logFile]
    /\ UNCHANGED <<logFile, mu, calls, appended, tamper>>
    /\ UNCHANGED <<now, rnd, sealed>>
    /\ UNCHANGED engineVars
    /\ UNCHANGED agentVars
    /\ UNCHANGED keyVars
    /\ UNCHANGED cliVars

\* Show(workdir, n), between two calls of Log
ShowCounts == {0 - 1, 0, 1, 2}

ShowLog(n) ==
    /\ auditRes = NoQuery
    /\ Quiet
    /\ \E r \in {Show(logFile, n)} :
          auditRes' = [NoQuery EXCEPT !.op = "show", !.n = n, !.err = r.err,
                                      !.entries = r.entries, !.file = logFile]
    /\ UNCHANGED <<logFile, mu, calls, appended, tamper>>
    /\ UNCHANGED <<now, rnd, sealed>>
    /\ UNCHANGED engineVars
    /\ UNCHANGED agentVars
    /\ UNCHANGED keyVars
    /\ UNCHANGED cliVars

\* the first call of Log comes one tick later
Elapse ==
    /\ now = TicksPerSecond
    /\ ~logFile.dir
    /\ auditRes = NoQuery
    /\ Tick

(***************************************************************************)
(* internal/crypto: the master key of an identity (AsymmetricStrategy).    *)
(***************************************************************************)
MaxGets == 3

\* a xor b, bit by bit
RECURSIVE BitXor(_, _)
BitXor(a, b) ==
    IF a = 0 /\ b = 0 THEN 0
    ELSE ((a + b) % 2) + 2 * BitXor(a \div 2, b \div 2)

\* hmac.New(sha256.New, key) over msg: H((k xor opad) || H((k xor ipad) || msg)),
\* k the key (its digest when longer than a block) filled with zeros to 64
HmacSha256(key, msg) ==
    LET short == IF Len(key) > 64 THEN Sha256(key) ELSE key
        k == [i \in 1..64 |-> IF i <= Len(short) THEN short[i] ELSE 0]
        ipad == [i \in 1..64 |-> BitXor(k[i], 54)]
        opad == [i \in 1..64 |-> BitXor(k[i], 92)]
    IN Sha256(opad \o Sha256(ipad \o msg))

\* "openenvx-master-key-derivation"
DerivationLabel == <<111, 112, 101, 110, 101, 110, 118, 120, 45, 109, 97, 115, 116, 101, 114, 45, 107, 101, 121, 45, 100, 101, 114, 105, 118, 97, 116, 105, 111, 110>>

\* identity.String() of two identities, and no identity
IdA == <<65, 71, 69, 45, 83, 69, 67, 82, 69, 84, 45, 75, 69, 89, 45, 49, 65>>
IdB == <<65, 71, 69, 45, 83, 69, 67, 82, 69, 84, 45, 75, 69, 89, 45, 49, 66>>
NoIdentity == <<>>
Identities == {NoIdentity, IdA, IdB}

\* a derivation that does not look at the identity
DeriveAnyKey(identity) == SubSeq(HmacSha256(<<>>, DerivationLabel), 1, masterKeySize)

\* GetMasterKey, the derivation: the first masterKeySize bytes of the HMAC
DeriveKey(identity) ==
    SubSeq(HmacSha256(identity, DerivationLabel), 1, masterKeySize)

Instances == {1, 2}
Threads == {1, 2}

\* cachedKey: the pointer written last, nil (0) before the first write
CachedKey(inst) ==
    IF Len(strategies[inst].writes) = 0 THEN 0
    ELSE strategies[inst].writes[Len(strategies[inst].writes)]

NoStrategy == [built |-> FALSE, identity |-> NoIdentity, writes |-> <<>>]
NoGet == [pc |-> "idle", inst |-> 0, after |-> 0,
          seen |-> [inst \in Instances |-> 0]]

\* what an unsynchronized read of cachedKey by thread t can give: the
\* pointer written last, or an older value that is not older than what the
\* thread has read or written itself
Visible(t, inst) ==
    {[at |-> i, ptr |-> IF i = 0 THEN 0 ELSE strategies[inst].writes[i]] :
        i \in getCalls[t].seen[inst]..Len(strategies[inst].writes)}

\* NewAsymmetricStrategy(identity)
NewAsymmetricStrategy(inst, identity) ==
    /\ ~strategies[inst].built
    /\ strategies' = [strategies EXCEPT ![inst] =
                         [built |-> TRUE, identity |-> identity, writes |-> <<>>]]
    /\ UNCHANGED <<keyHeap, getCalls, returned>>
    /\ UNCHANGED <<now, rnd, sealed>>
    /\ UNCHANGED engineVars
    /\ UNCHANGED agentVars
    /\ UNCHANGED auditVars
    /\ UNCHANGED cliVars

\* GetMasterKey up to the derivation: cachedKey is read, without any
\* synchronization, and returned when it is not nil; without identity the
\* call fails
GetBegin(t, inst) ==
    /\ getCalls[t].pc = "idle"
    /\ strategies[inst].built
    /\ Len(returned) + Cardinality({u \in Threads : getCalls[u].pc # "idle"})
          < MaxGets
    /\ \E cached \in Visible(t, inst) :
          IF cached.ptr # 0
          THEN /\ returned' = Append(returned,
                                     [t |-> t, inst |-> inst, ptr |-> cached.ptr,
                                      err |-> "", derived |-> FALSE,
                                      after |-> Len(returned)])
               /\ getCalls' = [getCalls EXCEPT ![t].seen[inst] = cached.at]
          ELSE IF strategies[inst].identity = NoIdentity
          THEN /\ returned' = Append(returned,
                                     [t |-> t, inst |-> inst, ptr |-> 0,
                                      err |-> "private key not available",
                                      derived |-> FALSE,
                                      after |-> Len(returned)])
               /\ UNCHANGED getCalls
          ELSE /\ getCalls' = [getCalls EXCEPT ![t].pc = "deriving",
                                               ![t].inst = inst,
                                               ![t].after = Len(returned),
                                               ![t].seen[inst] = cached.at]
               /\ UNCHANGED returned
    /\ UNCHANGED <<strategies, keyHeap>>
    /\ UNCHANGED <<now, rnd, sealed>>
    /\ UNCHANGED engineVars
    /\ UNCHANGED agentVars
    /\ UNCHANGED auditVars
    /\ UNCHANGED cliVars

\* GetMasterKey from the derivation on: a new MasterKey is made of the
\* derived bytes, cachedKey is set to it and it is returned
GetEnd(t) ==
    /\ getCalls[t].pc = "deriving"
    /\ \E inst \in {getCalls[t].inst} :
          /\ keyHeap' = Append(keyHeap, DeriveKey(strategies[inst].identity))
          /\ strategies' = [strategies EXCEPT ![inst].writes =
                               Append(@, Len(keyHeap) + 1)]
          /\ returned' = Append(returned,
                                [t |-> t, inst |-> inst, ptr |-> Len(keyHeap) + 1,
                                 err |-> "", derived |-> TRUE,
                                 after |-> getCalls[t].after])
    /\ getCalls' = [getCalls EXCEPT
                       ![t].pc = "idle", ![t].inst = 0, ![t].after = 0,
                       ![t].seen[getCalls[t].inst] =
                           Len(strategies[getCalls[t].inst].writes) + 1]
    /\ UNCHANGED <<now, rnd, sealed>>
    /\ UNCHANGED engineVars
    /\ UNCHANGED agentVars
    /\ UNCHANGED auditVars
    /\ UNCHANGED cliVars

(***************************************************************************)
(* cmd and internal/mcpserver: set / create_secret, envelope create and    *)
(* envelope run, on the command line ("cli") and as MCP tools ("mcp").     *)
(***************************************************************************)
MaxActions == 3

Surfaces == {"cli", "mcp"}

\* GetMasterKeyForWorkspace: the master key of the workspace
WorkspaceKey == MasterKey(1)

\* a value no rule of the no-encrypt detector matches: "hi"
CliValues == {<<104, 105>>}

\* --scope / keys
CliScopes == {<<NameA>>, <<NameA, NameB>>}

\* --ttl / ttl_hours
CliTTLs == {TicksPerSecond + 2}

\* the command of envelope run: none, or "sh"
CliCommands == {<<>>, <<115, 104>>}

\* "envelope:"
envelopeScheme == <<101, 110, 118, 101, 108, 111, 112, 101, 58>>

\* how the token handed to envelope run differs from the one that was minted
RunDamages == {"none", "noPrefix", "otherVersion", "notJSON", "wrappedKey"}

NoMinted == [token |-> <<>>, env |-> NoEnvelope]
NoRun == [pc |-> "idle", surface |-> "none", env |-> NoEnvelope,
          command |-> <<>>, secrets |-> <<>>, steps |-> <<>>, err |-> "",
          before |-> NoFile, logged |-> NoCall, sid |-> <<>>,
          started |-> FALSE]

\* a command that reported success, and the session id of its bundle
Report(cmd, sid) == [cmd |-> cmd, sid |-> sid]

\* audit.Log as one call at clock value t: [err, file]; a workdir that is
\* read-only refuses the directory, or the file when the directory is there
Log(file, ro, t, op, scope, sid, ttl, command) ==
    IF ro
    THEN [err |-> IF file.dir THEN "open audit log" ELSE "ensure audit dir",
          file |-> file]
    ELSE [err |-> "",
          file |-> [dir |-> TRUE, exists |-> TRUE,
                    bytes |-> AppendLine(file.bytes,
                                 MarshalEntry([NoEntry EXCEPT
                                                  !.Timestamp = t,
                                                  !.Op = op,
                                                  !.PrevHash = lastHash(file),
                                                  !.Scope = scope,
                                                  !.SessionID = sid,
                                                  !.TTL = ttl,
                                                  !.Command = command]))]]

\* LoadDecryptedEnv: every value of the .env file that parses as an
\* encrypted value is decrypted under its name, the others are taken as is
LoadDecryptedEnv(env, tbl, mk) ==
    LET parsed(k) == ParseEncryptedValue(env[k])
        plain(k) == EnvelopeDecrypt(tbl, mk, parsed(k).ev, k)
    IN IF \E k \in DOMAIN env : parsed(k).err = "" /\ plain(k).err # ""
       THEN [err |-> "failed to decrypt", secrets |-> <<>>]
       ELSE [err |-> "",
             secrets |-> [k \in DOMAIN env |->
                             IF parsed(k).err # "" THEN env[k] ELSE plain(k).pt]]

\* the checks of envelope run before Parse, in the order of each surface
RunChecks(surface, s, command) ==
    IF surface = "cli"
    THEN IF ~HasPrefix(s, envelopeScheme) THEN "invalid envelope format"
         ELSE IF command = <<>> THEN "no command specified"
         ELSE ""
    ELSE IF s = <<>> THEN "envelope is required"
         ELSE IF command = <<>> THEN "command is required"
         ELSE IF ~HasPrefix(s, envelopeScheme) THEN "invalid envelope format"
         ELSE ""

\* an envelope run that goes on whatever Unwrap returned
UnwrappedAnyway(r) == TRUE

\* if err != nil { return } after env.Unwrap()
Unwrapped(r) == r.err = ""

\* the token handed to envelope run
Presented(kind) ==
    CASE kind = "none" -> minted.token
      [] kind \in TokenDamages -> DamageToken(minted.token, kind)
      [] kind \in Corruptions -> EnvelopeString(CorruptEnvelope(minted.env, kind))

\* set (runSet, SetEnvValue) and create_secret (SetSecret): the value is
\* encrypted under its name and the .env file saved; success is reported
SetSecret(surface, n, p) ==
    /\ run.pc \in {"idle", "done", "failed"}
    /\ Len(reports) + refusals < MaxActions
    /\ \E r \in {EnvelopeEncrypt(WorkspaceKey, p, n, rnd)} :
          /\ rnd' = rnd + r.reads
          /\ sealed' = sealed \cup r.seals
          /\ dotenv' = IF r.err = "" THEN (n :> String(r.ev)) @@ dotenv
                       ELSE dotenv
          /\ reports' = IF r.err = "" THEN Append(reports, Report("set", <<>>))
                        ELSE reports
          /\ refusals' = IF r.err = "" THEN refusals ELSE refusals + 1
    /\ run' = NoRun
    /\ UNCHANGED <<now, readOnly, minted>>
    /\ UNCHANGED engineVars
    /\ UNCHANGED agentVars
    /\ UNCHANGED auditVars
    /\ UNCHANGED keyVars

\* envelope create (runEnvelopeCreate, envelope_create): the .env file is
\* decrypted, the keys of the scope picked, the bundle minted and
\* serialized, the audit entry written (a failure is a warning on the
\* command line and ignored by the tool) and the token handed out
EnvelopeCreate(surface, scope, ttl) ==
    /\ run.pc \in {"idle", "done", "failed"}
    /\ Len(reports) + refusals < MaxActions
    /\ run' = NoRun
    /\ \E loaded \in {LoadDecryptedEnv(dotenv, sealed, WorkspaceKey)} :
          IF loaded.err # "" \/ \E i \in 1..Len(scope) :
                                    scope[i] \notin DOMAIN loaded.secrets
          THEN /\ refusals' = refusals + 1
               /\ UNCHANGED <<rnd, sealed, logFile, minted, reports>>
          ELSE \E r \in {Create([k \in Range(scope) |-> loaded.secrets[k]],
                                scope, ttl, rnd, now)} :
                  /\ rnd' = rnd + r.reads
                  /\ sealed' = sealed \cup r.seals
                  /\ IF r.err # ""
                     THEN /\ refusals' = refusals + 1
                          /\ UNCHANGED <<logFile, minted, reports>>
                     ELSE /\ reports' = Append(reports,
                                               Report("create", r.env.SessionID))
                          /\ refusals' = refusals
                          /\ logFile' = Log(logFile, readOnly, now,
                                            OpEnvelopeCreate, scope,
                                            r.env.SessionID, Decimal(ttl),
                                            <<>>).file
                          /\ minted' = [token |-> EnvelopeString(r.env),
                                        env |-> r.env]
    /\ UNCHANGED <<now, dotenv, readOnly>>
    /\ UNCHANGED <<mu, calls, appended, tamper, auditRes>>
    /\ UNCHANGED engineVars
    /\ UNCHANGED agentVars
    /\ UNCHANGED keyVars

\* envelope run, up to Parse: the checks of the arguments, then Parse
RunBegin(surface, kind, command) ==
    /\ run.pc \in {"idle", "done", "failed"}
    /\ Len(reports) + refusals < MaxActions
    /\ minted # NoMinted
    /\ \E s \in {Presented(kind)} :
       \E refused \in {RunChecks(surface, s, command)} :
          IF refused # ""
          THEN /\ run' = [NoRun EXCEPT !.pc = "failed", !.surface = surface,
                                       !.err = refused, !.before = logFile]
               /\ refusals' = refusals + 1
          ELSE \E parsed \in {Parse(s)} :
               /\ refusals' = IF parsed.err = "" THEN refusals ELSE refusals + 1
               /\ run' = [NoRun EXCEPT
                                !.pc = IF parsed.err = "" THEN "inspect"
                                       ELSE "failed",
                                !.surface = surface,
                                !.env = parsed.env,
                                !.command = command,
                                !.steps = <<[step |-> "parse", res |-> parsed.err]>>,
                                !.err = IF parsed.err = "" THEN ""
                                        ELSE "parse envelope",
                                !.before = logFile]
    /\ UNCHANGED <<now, rnd, sealed, dotenv, readOnly, minted, reports>>
    /\ UNCHANGED engineVars
    /\ UNCHANGED agentVars
    /\ UNCHANGED auditVars
    /\ UNCHANGED keyVars

\* envelope run: env.Inspect() and the check of its status
RunInspect ==
    /\ run.pc = "inspect"
    /\ \E info \in {Inspect(run.env, now)} :
          /\ run' = [run EXCEPT
                        !.pc = IF info.Status = "expired" THEN "failed"
                               ELSE "unwrap",
                        !.steps = Append(@, [step |-> "inspect", res |-> info.Status]),
                        !.err = IF info.Status = "expired"
                                THEN "envelope expired" ELSE ""]
          /\ refusals' = IF info.Status = "expired" THEN refusals + 1
                         ELSE refusals
    /\ UNCHANGED <<now, rnd, sealed, dotenv, readOnly, minted, reports>>
    /\ UNCHANGED engineVars
    /\ UNCHANGED agentVars
    /\ UNCHANGED auditVars
    /\ UNCHANGED keyVars

\* envelope run: env.Unwrap() and the check of its error
RunUnwrap ==
    /\ run.pc = "unwrap"
    /\ \E r \in {Unwrap(sealed, run.env, now)} :
          /\ run' = [run EXCEPT
                        !.pc = IF Unwrapped(r) THEN "audit" ELSE "failed",
                        !.secrets = r.secrets,
                        !.steps = Append(@, [step |-> "unwrap", res |-> r.err]),
                        !.err = IF Unwrapped(r) THEN "" ELSE "unwrap envelope"]
          /\ refusals' = IF Unwrapped(r) THEN refusals ELSE refusals + 1
    /\ UNCHANGED <<now, rnd, sealed, dotenv, readOnly, minted, reports>>
    /\ UNCHANGED engineVars
    /\ UNCHANGED agentVars
    /\ UNCHANGED auditVars
    /\ UNCHANGED keyVars

\* envelope run: the audit entry, with the session id and the command; a
\* failure is a warning on the command line and ignored by the tool
RunAudit ==
    /\ run.pc = "audit"
    /\ \E r \in {Log(logFile, readOnly, now, OpEnvelopeRun, <<>>,
                     run.env.SessionID, <<>>, run.command)} :
          /\ logFile' = r.file
          /\ run' = [run EXCEPT
                        !.pc = "start",
                        !.logged = r.err,
                        !.sid = run.env.SessionID,
                        !.steps = Append(@, [step |-> "audit", res |-> r.err])]
    /\ UNCHANGED <<now, rnd, sealed, dotenv, readOnly, minted, reports, refusals>>
    /\ UNCHANGED <<mu, calls, appended, tamper, auditRes>>
    /\ UNCHANGED engineVars
    /\ UNCHANGED agentVars
    /\ UNCHANGED keyVars

\* envelope run: the command is started with the secrets in its
\* environment, and runs to a zero exit
RunStart ==
    /\ run.pc = "start"
    /\ run' = [run EXCEPT !.pc = "done", !.started = TRUE]
    /\ reports' = Append(reports, Report("run", run.env.SessionID))
    /\ UNCHANGED <<now, rnd, sealed, dotenv, readOnly, minted, refusals>>
    /\ UNCHANGED engineVars
    /\ UNCHANGED agentVars
    /\ UNCHANGED auditVars
    /\ UNCHANGED keyVars

\* the workdir is made read-only
Protect ==
    /\ ~readOnly
    /\ readOnly' = TRUE
    /\ UNCHANGED <<now, rnd, sealed, dotenv, minted, run, reports, refusals>>
    /\ UNCHANGED engineVars
    /\ UNCHANGED agentVars
    /\ UNCHANGED auditVars
    /\ UNCHANGED keyVars

\* time passes while an envelope run is under way
Wait ==
    /\ run.pc \in {"inspect", "unwrap", "audit", "start"}
    /\ Tick

(***************************************************************************)
(* Specifications.                                                         *)
(***************************************************************************)
Init ==
    /\ now = TicksPerSecond
    /\ rnd = 0
    /\ sealed = {}
    /\ vault = <<>>
    /\ encErr = NoCall
    /\ decRes = NoDecrypt
    /\ createRes = [secrets |-> <<>>, scope |-> <<>>, ttl |-> 0,
                    at |-> 0, err |-> NoCall, key |-> <<>>, env |-> NoEnvelope,
                    reads |-> 0, seals |-> {}]
    /\ token = <<>>
    /\ bundle = NoEnvelope
    /\ twin = [kind |-> "none", env |-> NoEnvelope]
    /\ parseErr = NoCall
    /\ unwrapRes = [who |-> "none", err |-> "", secrets |-> <<>>]
    /\ infoRes = [who |-> "none", info |-> Inspect(NoEnvelope, 0)]
    /\ handed = NoHanded
    /\ logFile = NoFile
    /\ mu = [p \in Processes |-> 0]
    /\ calls = [c \in Callers |-> NoLog]
    /\ appended = <<>>
    /\ tamper = NoTamper
    /\ auditRes = NoQuery
    /\ strategies = [inst \in Instances |-> NoStrategy]
    /\ keyHeap = <<>>
    /\ getCalls = [t \in Threads |-> NoGet]
    /\ returned = <<>>
    /\ dotenv = <<>>
    /\ readOnly = FALSE
    /\ minted = NoMinted
    /\ run = NoRun
    /\ reports = <<>>
    /\ refusals = 0

NextEngine ==
    \/ \E mk \in MasterKeys, p \in Plaintexts, n \in Names : Encrypt(mk, p, n)
    \/ \E i \in 1..MaxEncrypts, mk \in MasterKeys, n \in Names, kind \in Damages :
          Decrypt(i, mk, n, kind)

NextAgent ==
    \/ \E secrets \in SecretMaps, scope \in Scopes, ttl \in TTLs :
          CreateEnvelope(secrets, scope, ttl)
    \/ ParseToken
    \/ \E kind \in TokenDamages : ParseDamaged(kind)
    \/ UnwrapDamaged
    \/ \E kind \in Corruptions : Corrupt(kind)
    \/ \E who \in {"bundle", "twin"} : UnwrapEnvelope(who)
    \/ \E who \in {"bundle", "twin"} : InspectEnvelope(who)
    \/ Tick

SpecEngine == Init /\ [][NextEngine]_vars

\* one process with two goroutines that log, a tamperer and a reader
NextAudit ==
    \/ \E c \in InProcess(1) : LogBegin(c)
    \/ \E c \in InProcess(1) : LogWrite(c)
    \/ \E kind \in TamperKinds, k \in 1..MaxAppends, variant \in TamperVariants :
          Tamper(kind, k, variant)
    \/ VerifyLog
    \/ \E n \in ShowCounts : ShowLog(n)
    \/ Elapse

SpecAgent == Init /\ [][NextAgent]_vars

SpecAudit == Init /\ [][NextAudit]_vars

\* two processes, one goroutine each, that log to the same workdir, and a
\* reader
NextShared ==
    \/ \E c \in {1, 3} : LogBegin(c)
    \/ \E c \in {1, 3} : LogWrite(c)
    \/ VerifyLog
    \/ \E n \in ShowCounts : ShowLog(n)

SpecShared == Init /\ [][NextShared]_vars

\* two strategy instances, and two threads that ask them for the master key
NextKeys ==
    \/ \E inst \in Instances, identity \in Identities :
          NewAsymmetricStrategy(inst, identity)
    \/ \E t \in Threads, inst \in Instances : GetBegin(t, inst)
    \/ \E t \in Threads : GetEnd(t)

SpecKeys == Init /\ [][NextKeys]_vars

\* one workspace, and the commands run in it one after the other
NextCLI ==
    \/ \E surface \in Surfaces, n \in Names, p \in CliValues :
          SetSecret(surface, n, p)
    \/ \E surface \in Surfaces, scope \in CliScopes, ttl \in CliTTLs :
          EnvelopeCreate(surface, scope, ttl)
    \/ \E surface \in Surfaces, kind \in RunDamages, command \in CliCommands :
          RunBegin(surface, kind, command)
    \/ RunInspect
    \/ RunUnwrap
    \/ RunAudit
    \/ RunStart
    \/ Protect
    \/ Wait

SpecCLI == Init /\ [][NextCLI]_vars

(***************************************************************************)
(* Claims about the envelope engine (SpecEngine).                          *)
(***************************************************************************)
\* C1: for every master key, plaintext (the empty one included) and name,
\* Encrypt succeeds, ParseEncryptedValue accepts the serialized form
\* envx:<wrappedDEK>:<ciphertext> with both fields unchanged, and Decrypt of
\* the parsed value under the same master key and name returns the plaintext.
C1_RoundTrip ==
    /\ encErr \in {NoCall, ""}
    /\ decRes = NoDecrypt
       => \A i \in 1..Len(vault) :
            LET v == vault[i]
                parsed == ParseEncryptedValue(v.str)
            IN /\ v.str = EncryptedValuePrefix \o v.ev.WrappedDEK \o <<Colon>>
                          \o v.ev.Ciphertext
               /\ parsed.err = ""
               /\ parsed.ev = v.ev
               /\ EnvelopeDecrypt(sealed, v.mk, parsed.ev, v.n)
                    = [err |-> "", pt |-> v.p]
    /\ (decRes.i > 0 /\ decRes.kind = "none"
        /\ decRes.mk = vault[decRes.i].mk /\ decRes.n = vault[decRes.i].n)
       => (decRes.err = "" /\ decRes.pt = vault[decRes.i].p)

\* an empty plaintext was stored and read back under its own key and name
C1_Witness ==
    /\ decRes.i > 0 /\ decRes.kind = "none" /\ decRes.err = ""
    /\ vault[decRes.i].p = <<>>
    /\ decRes.mk = vault[decRes.i].mk /\ decRes.n = vault[decRes.i].n
    /\ \E j \in 1..Len(vault) : vault[j].p # <<>>

\* C2: Decrypt of an encrypted value under another name or under another
\* master key returns an error and no plaintext.
C2_NameAndKeyBinding ==
    /\ decRes = NoDecrypt
       => \A i \in 1..Len(vault), mk \in MasterKeys, n \in Names :
            (mk # vault[i].mk \/ n # vault[i].n)
            => LET d == EnvelopeDecrypt(sealed, mk, vault[i].ev, n)
               IN d.err # "" /\ d.pt = <<>>
    /\ (decRes.i > 0 /\ decRes.kind = "none"
        /\ (decRes.mk # vault[decRes.i].mk \/ decRes.n # vault[decRes.i].n))
       => (decRes.err # "" /\ decRes.pt = <<>>)

\* a value stored under one name was read back as the other name, with the
\* right master key, and the read failed
C2_Witness ==
    /\ decRes.i > 0 /\ decRes.kind = "none"
    /\ decRes.mk = vault[decRes.i].mk /\ decRes.n # vault[decRes.i].n
    /\ decRes.err = "failed to decrypt"

\* C3: no two values returned by Encrypt have the same wrappedDEK or the
\* same ciphertext, also for identical (master key, plaintext, name), and
\* each of them decrypts to its own plaintext.
C3_Freshness ==
    \A i, j \in 1..Len(vault) :
        /\ i # j => /\ vault[i].ev.WrappedDEK # vault[j].ev.WrappedDEK
                    /\ vault[i].ev.Ciphertext # vault[j].ev.Ciphertext
        /\ decRes = NoDecrypt
           => EnvelopeDecrypt(sealed, vault[i].mk, vault[i].ev, vault[i].n)
                = [err |-> "", pt |-> vault[i].p]

\* the same plaintext was encrypted twice under the same key and name
C3_Witness ==
    /\ Len(vault) >= 2
    /\ vault[1].mk = vault[2].mk /\ vault[1].p = vault[2].p
    /\ vault[1].n = vault[2].n

(***************************************************************************)
(* Claims about the agent envelope (SpecAgent).                            *)
(***************************************************************************)
Called(r) == r.who # "none"

Created == createRes.err = ""

\* the map {n -> secrets[n] : n in scope} of the Create that was called
ScopedSecrets == [n \in Range(createRes.scope) |-> createRes.secrets[n]]

\* C4: for a non-empty secrets map and a non-empty scope of its keys, Create
\* succeeds, Parse accepts the serialized bundle, the bundle holds one entry
\* per scope name and no other, and, while the bundle the consumer holds has
\* not expired, Unwrap of it returns exactly {n -> secrets[n] : n in scope}.
C4_ScopedRoundTrip ==
    /\ (createRes.err # NoCall /\ DOMAIN createRes.secrets # {}
        /\ Len(createRes.scope) > 0
        /\ Range(createRes.scope) \subseteq DOMAIN createRes.secrets)
       => /\ Created
          /\ DOMAIN createRes.env.EncryptedSecrets = Range(createRes.scope)
    /\ parseErr \in {NoCall, ""}
    /\ parseErr = ""
       => /\ DOMAIN bundle.EncryptedSecrets = Range(createRes.scope)
          /\ bundle.Scope = createRes.scope
          /\ ~After(now, bundle.ExpiresAt)
             => Unwrap(sealed, bundle, now) = [err |-> "", secrets |-> ScopedSecrets]
    /\ (unwrapRes.who = "bundle" /\ unwrapRes.err # "ErrExpired")
       => (unwrapRes.err = "" /\ unwrapRes.secrets = ScopedSecrets)

\* secrets A and B, scope A only: the consumer unwrapped the parsed bundle
\* and got A alone
C4_Witness ==
    /\ unwrapRes.who = "bundle" /\ unwrapRes.err = ""
    /\ DOMAIN createRes.secrets = {NameA, NameB}
    /\ createRes.scope = <<NameA>>
    /\ unwrapRes.secrets = (NameA :> <<49>>)

\* C5: at any clock value and for any bundle, corrupted or not, Inspect
\* reports "expired" exactly when Unwrap fails with ErrExpired; an expired
\* bundle fails with ErrExpired whatever its key material looks like.
C5_ExpiryBeforeCrypto ==
    /\ parseErr = ""
       => \A who \in {w \in {"bundle", "twin"} : w = "twin" => twin.kind # "none"} :
            LET e == Subject(who)
                u == Unwrap(sealed, e, now)
            IN /\ (Inspect(e, now).Status = "expired") <=> (u.err = "ErrExpired")
               /\ After(now, e.ExpiresAt) => u.err = "ErrExpired"
    /\ (Called(unwrapRes) /\ infoRes.who = unwrapRes.who)
       => ((infoRes.info.Status = "expired") <=> (unwrapRes.err = "ErrExpired"))
    /\ (Called(unwrapRes) /\ After(now, Subject(unwrapRes.who).ExpiresAt))
       => unwrapRes.err = "ErrExpired"
    /\ (Called(unwrapRes) /\ Inspect(Subject(unwrapRes.who), now).Status = "valid")
       => unwrapRes.err # "ErrExpired"

\* an expired bundle with a damaged wrapped session key was unwrapped and
\* inspected: ErrExpired and "expired"
C5_Witness ==
    /\ unwrapRes.who = "twin" /\ infoRes.who = "twin"
    /\ twin.kind = "wrappedKey"
    /\ unwrapRes.err = "ErrExpired"
    /\ infoRes.info.Status = "expired"
    /\ Unwrap(sealed, [twin.env EXCEPT !.ExpiresAt = now], now).err = "ErrDecryption"

\* C6 as stated: a bundle is valid exactly while now < expiresAt; at the
\* instant now = expiresAt Inspect reports "expired" and Unwrap fails with
\* ErrExpired.
C6_ExpiredAtExpiry ==
    /\ Called(infoRes)
       => ((infoRes.info.Status = "valid")
           <=> (now < Subject(infoRes.who).ExpiresAt))
    /\ Called(unwrapRes)
       => ((unwrapRes.err # "ErrExpired")
           <=> (now < Subject(unwrapRes.who).ExpiresAt))

\* C6: a bundle is valid exactly while now <= expiresAt and expired for
\* every now > expiresAt: at the instant now = expiresAt Inspect still
\* reports "valid" and Unwrap does not fail with ErrExpired.
C6_ValidThroughExpiry ==
    /\ Called(infoRes)
       => ((infoRes.info.Status = "valid")
           <=> (now <= Subject(infoRes.who).ExpiresAt))
    /\ Called(unwrapRes)
       => ((unwrapRes.err # "ErrExpired")
           <=> (now <= Subject(unwrapRes.who).ExpiresAt))
    /\ parseErr = ""
       => /\ \A t \in 0..MaxTime :
               (Inspect(bundle, t).Status = "valid") <=> (t <= bundle.ExpiresAt)
          /\ (Unwrap(sealed, bundle, now).err = "ErrExpired")
             <=> (now > bundle.ExpiresAt)

\* the bundle was inspected and unwrapped at the very instant it expires:
\* "valid", and the secrets came back
C6_Witness ==
    /\ infoRes.who = "bundle" /\ unwrapRes.who = "bundle"
    /\ now = bundle.ExpiresAt
    /\ infoRes.info.Status = "valid"
    /\ unwrapRes.err = ""

\* C7: a bundle created at time t with ttl d > 0 and parsed from its token
\* by the consumer is valid at every now with t <= now < t + d: Inspect
\* reports "valid" and Unwrap does not fail with ErrExpired.
C7_ValidForFullTTL ==
    /\ (parseErr = "" /\ createRes.ttl > 0
        /\ createRes.at <= now /\ now < createRes.at + createRes.ttl)
       => /\ Inspect(bundle, now).Status = "valid"
          /\ Unwrap(sealed, bundle, now).err # "ErrExpired"
    /\ (infoRes.who = "bundle" /\ createRes.ttl > 0
        /\ now < createRes.at + createRes.ttl)
       => infoRes.info.Status = "valid"
    /\ (unwrapRes.who = "bundle" /\ createRes.ttl > 0
        /\ now < createRes.at + createRes.ttl)
       => unwrapRes.err # "ErrExpired"

\* C8: Create fails with "no secrets provided" for an empty secrets map,
\* else with "scope is required" for an empty scope, else with
\* ErrScopeKeyMissing naming the first scope entry that is not a key of
\* secrets; a failed Create has read no randomness, sealed nothing and
\* returned no envelope, and a Create with none of these faults succeeds.
C8_CreateValidation ==
    createRes.err # NoCall
    => LET secrets == createRes.secrets
           scope == createRes.scope
           absent == {i \in 1..Len(scope) : scope[i] \notin DOMAIN secrets}
       IN /\ DOMAIN secrets = {} => createRes.err = "no secrets provided"
          /\ (DOMAIN secrets # {} /\ Len(scope) = 0)
             => createRes.err = "scope is required"
          /\ (DOMAIN secrets # {} /\ Len(scope) > 0 /\ absent # {})
             => /\ createRes.err = "ErrScopeKeyMissing"
                /\ \E i \in absent : /\ createRes.key = scope[i]
                                     /\ \A j \in absent : i <= j
          /\ (DOMAIN secrets # {} /\ Len(scope) > 0 /\ absent = {})
             => createRes.err = ""
          /\ createRes.err # ""
             => /\ createRes.env = NoEnvelope
                /\ createRes.reads = 0 /\ createRes.seals = {}
                /\ rnd = 0 /\ sealed = {} /\ token = <<>>
                /\ parseErr = NoCall /\ bundle = NoEnvelope
          /\ createRes.err = "" => createRes.reads > 0 /\ sealed # {}

\* Create was given the secret A and the scope A, B: it named B
C8_Witness ==
    /\ createRes.err = "ErrScopeKeyMissing"
    /\ createRes.scope = <<NameA, NameB>>
    /\ createRes.key = NameB
    /\ rnd = 0

\* C9: if opening the wrapped session key or any single entry fails, Unwrap
\* fails with ErrDecryption and returns no map at all.
C9_AllOrNothing ==
    /\ Called(unwrapRes)
       => /\ unwrapRes.err \in {"", "ErrExpired", "ErrDecryption"}
          /\ unwrapRes.err # "" => unwrapRes.secrets = <<>>
          /\ unwrapRes.err = ""
             => DOMAIN unwrapRes.secrets
                  = DOMAIN Subject(unwrapRes.who).EncryptedSecrets
    /\ (unwrapRes.who = "twin" /\ ~After(now, twin.env.ExpiresAt))
       => unwrapRes.err = "ErrDecryption"

\* C10: Inspect of a bundle whose unwrap secret, wrapped session key or
\* ciphertext bytes were changed is, field for field, Inspect of the
\* unchanged bundle at the same clock value, also when Unwrap of the changed
\* bundle fails.
C10_InspectIgnoresCrypto ==
    /\ twin.kind # "none"
       => /\ twin.env # bundle
          /\ \A t \in 0..MaxTime : Inspect(twin.env, t) = Inspect(bundle, t)
    /\ infoRes.who = "twin" => infoRes.info = Inspect(bundle, now)
    /\ Called(infoRes)
       => /\ infoRes.info.Status \in {"valid", "expired"}
          /\ infoRes.info.KeysIncluded = Cardinality(Range(createRes.scope))
          /\ infoRes.info.Scope = createRes.scope
          /\ infoRes.info.SessionID = createRes.env.SessionID

\* a bundle with a truncated ciphertext was inspected, "valid", while its
\* Unwrap failed
C10_Witness ==
    /\ infoRes.who = "twin" /\ unwrapRes.who = "twin"
    /\ twin.kind = "shortCiphertext"
    /\ infoRes.info.Status = "valid"
    /\ unwrapRes.err \notin {"", "ErrExpired"}


\* the envelope Create returned was serialized and parsed back
ParsedBack == Created /\ parseErr # NoCall

\* C21 as stated: for every envelope e returned by Create, Parse(String(e))
\* succeeds and equals e field for field.
C21_ParseInvertsString ==
    ParsedBack => parseErr = "" /\ bundle = createRes.env

\* the errors the operations of the envelope package returned
ReturnedErrors ==
    {createRes.err, parseErr, unwrapRes.err, handed.err, handed.unwrapErr}

\* C22: Parse returns ErrInvalidFormat and no envelope for a token with
\* another prefix (envelope:v2: included), with a payload that is not
\* base64 or not JSON, and with a created_at or expires_at that is missing
\* or not a timestamp; no operation returns ErrInvalidVersion.
C22_InvalidFormat ==
    /\ handed.kind \in TokenDamages \ SecretDamages
       => /\ handed.err = "ErrInvalidFormat"
          /\ handed.env = NoEnvelope
          /\ handed.unwrapErr = NoCall
    /\ handed.kind \in {"otherVersion", "noPrefix"}
       => ~HasPrefix(handed.s, prefix)
    /\ handed.kind \in TokenDamages \ {"otherVersion", "noPrefix"}
       => HasPrefix(handed.s, prefix) /\ handed.s # token
    /\ "ErrInvalidVersion" \notin ReturnedErrors

C22_Witness ==
    /\ handed.kind = "noExpiresAt"
    /\ handed.err = "ErrInvalidFormat"
    /\ parseErr = NoCall

\* the names of the entries the damaged token still carries
RemainingNames ==
    DOMAIN createRes.env.EncryptedSecrets
       \ {FirstName(DOMAIN createRes.env.EncryptedSecrets)}

\* C26: Parse succeeds on a token in which one entry of encrypted_secrets
\* is not base64 or not a string, and leaves that entry out; Unwrap of the
\* parsed envelope, before its expiry, succeeds and returns the secrets of
\* the remaining names only, fewer than the names of its scope.
C26_DroppedEntry ==
    handed.kind \in SecretDamages
    => /\ handed.err = ""
       /\ DOMAIN handed.env.EncryptedSecrets = RemainingNames
       /\ handed.env.Scope = createRes.env.Scope
       /\ handed.env.SessionID = createRes.env.SessionID
       /\ (handed.unwrapErr # NoCall /\ ~After(handed.at, handed.env.ExpiresAt))
          => /\ handed.unwrapErr = ""
             /\ handed.secrets = [k \in RemainingNames |-> createRes.secrets[k]]
             /\ DOMAIN handed.secrets \subseteq Range(handed.env.Scope)
             /\ DOMAIN handed.secrets # Range(handed.env.Scope)

C26_Witness ==
    /\ handed.kind = "secretNotBase64"
    /\ handed.unwrapErr = ""
    /\ handed.env.Scope = <<NameA, NameB>>
    /\ DOMAIN handed.secrets = {NameB}

(***************************************************************************)
(* Claims about the serialized form (SpecEngine).                          *)
(***************************************************************************)
\* the errors of ParseEncryptedValue
ParseErrors == {"not an encrypted value", "invalid encrypted value format"}

\* C20: ParseEncryptedValue succeeds exactly when the string starts with
\* envx: and a colon follows in the rest; it then returns what stands before
\* and after the first such colon, empty fields included: envx:: parses to
\* two empty fields and only the decryption fails.  Every other string, one
\* with the prefix enc: and one without a colon after the prefix included,
\* fails with an error of the parser, and nothing is decrypted.
C20_ParseShapes ==
    decRes.i > 0
    => LET s == decRes.s
           rest == SubSeq(s, Len(EncryptedValuePrefix) + 1, Len(s))
           shaped == /\ HasPrefix(s, EncryptedValuePrefix)
                     /\ Colon \in Range(rest)
           ev == ParseEncryptedValue(s).ev
       IN /\ decRes.parseErr = "" <=> shaped
          /\ shaped => /\ s = EncryptedValuePrefix \o ev.WrappedDEK
                              \o <<Colon>> \o ev.Ciphertext
                       /\ Colon \notin Range(ev.WrappedDEK)
          /\ ~shaped => /\ decRes.parseErr \in ParseErrors
                        /\ decRes.err = decRes.parseErr
                        /\ decRes.pt = <<>>
          /\ decRes.kind = "emptyFields"
             => /\ s = EncryptedValuePrefix \o <<Colon>>
                /\ ev = NoEncryptedValue
                /\ decRes.parseErr = ""
                /\ decRes.err \notin ParseErrors \cup {""}
          /\ decRes.kind = "otherPrefix"
             => decRes.err = "not an encrypted value"
          /\ decRes.kind = "noSeparator"
             => HasPrefix(s, EncryptedValuePrefix) /\ decRes.err \in ParseErrors

C20_Witness ==
    /\ decRes.i > 0
    /\ decRes.kind = "emptyFields"
    /\ decRes.parseErr = ""
    /\ decRes.err = "failed to unwrap DEK"

\* the errors of Decrypt for a field that is not base64
MalformedErrors == {"failed to decode wrapped DEK", "failed to decode ciphertext"}

\* C25 as stated: Decrypt of a value whose wrappedDEK or ciphertext is not
\* base64 fails with the error of a malformed value, whatever the master
\* key, also one under which the wrapped DEK does not unwrap.
C25_MalformedBeforeOpen ==
    (decRes.i > 0 /\ decRes.kind \in {"wrappedNotBase64", "cipherNotBase64"})
    => /\ decRes.parseErr = ""
       /\ decRes.err \in MalformedErrors

(***************************************************************************)
(* Claims about the audit log (SpecAudit).                                 *)
(***************************************************************************)
\* Verify returned, and nobody but Log wrote the file
VerifiedUntouched == auditRes.op = "verify" /\ tamper = NoTamper

\* entry 1 has an empty prev_hash, every later entry the hash of the line
\* written before it, and the file holds the lines written, in that order
ChainOfAppends ==
    /\ \A i \in 1..Len(appended) :
          appended[i].entry.PrevHash
             = IF i = 1 THEN <<>> ELSE HashLine(appended[i - 1].line)
    /\ logFile.bytes = WriteLines([i \in 1..Len(appended) |-> appended[i].line])

LastLine(b) ==
    LET ends == IF b[Len(b)] = Newline THEN Len(b) - 1 ELSE Len(b)
        starts == {i \in 1..(ends + 1) :
                      /\ i = 1 \/ b[i - 1] = Newline
                      /\ \A j \in i..ends : b[j] # Newline}
    IN SubSeq(b, CHOOSE i \in starts : TRUE, ends)

\* the log file was absent or empty
NoLines(file) == ~file.exists \/ file.bytes = <<>>

\* C12 as stated: every call of Log that returned added exactly one line,
\* the directory and the file exist after it, and its prev_hash is empty if
\* and only if the file was absent or empty just before the call, and is
\* otherwise the hash of the bytes of the line that was last in the file.
C12_AppendLinksToLastLine ==
    /\ Len(appended) > 0 => logFile.dir /\ logFile.exists
    /\ \A i \in 1..Len(appended) :
          LET a == appended[i]
          IN /\ Newline \notin Range(a.line)
             /\ a.size = Len(a.read.bytes)
             /\ (a.entry.PrevHash = <<>>) <=> NoLines(a.read)
             /\ ~NoLines(a.read)
                => a.entry.PrevHash = HashLine(LastLine(a.read.bytes))
    /\ (Len(appended) > 0 /\ (tamper = NoTamper \/ tamper.after < Len(appended)))
       => LET a == appended[Len(appended)]
          IN logFile.bytes = SubSeq(logFile.bytes, 1, a.size) \o a.line
                             \o <<Newline>>

\* Verify returned for a log that was rewritten in the given way after the
\* last call of Log
VerifiedAfter(kind) ==
    /\ auditRes.op = "verify"
    /\ tamper.kind = kind
    /\ tamper.after = Len(appended)

Breaks == Range(auditRes.result.Breaks)

\* C13 as stated: after N calls of Log, overwriting line k with other
\* content makes Verify report a break at position k + 1.
C13_OverwriteBreaksNext ==
    VerifiedAfter("overwrite") => tamper.k + 1 \in Breaks

C15_SingleChangeDetected ==
    (\E kind \in TamperKinds : VerifiedAfter(kind))
    => /\ auditRes.err = ""
       /\ Breaks \cap {tamper.k, tamper.k + 1} # {}

\* line i of lines does not parse, or does not carry the hash of the line
\* before it (an empty prev_hash for line 1)
BrokenLink(lines, i) ==
    Once(UnmarshalEntry(lines[i]), LAMBDA entry :
        \/ entry.err # ""
        \/ entry.e.PrevHash # IF i = 1 THEN <<>> ELSE HashLine(lines[i - 1]))

\* C16 as stated: Verify records every line that does not parse, at any
\* position i >= 1, as a break at i and goes on: every later line is still
\* compared with the hash of the line before it and its break reported.
C16_UnparseableLineIsBreak ==
    (auditRes.op = "verify" /\ logFile.exists)
    => Once(ScanLines(logFile.bytes), LAMBDA lines :
           \A i \in 1..Len(lines) : BrokenLink(lines, i) <=> i \in Breaks)

\* the callers that are between reading the last line and appending theirs
Logging == {c \in Callers : calls[c].pc = "locked"}

\* C17: when goroutines of one process call Log concurrently and nobody else
\* writes the file, the calls do not interleave: at most one caller is
\* between its read of the last line and its write, and the file is still
\* as that caller read it; the log has one line per call that returned, no
\* two entries took their prev_hash from the same last line, and Verify
\* reports no breaks.
C17_AppendsSerialized ==
    tamper = NoTamper
    => /\ Cardinality(Logging) <= 1
       /\ \A c \in Logging : /\ mu[ProcessOf(c)] = c
                             /\ calls[c].read.bytes = logFile.bytes
       /\ Logging = {} => mu[1] = 0
       /\ logFile.bytes
             = WriteLines([i \in 1..Len(appended) |-> appended[i].line])
       /\ \A i, j \in 1..Len(appended) :
             i # j => appended[i].read.bytes # appended[j].read.bytes
                      \/ appended[i].read.exists # appended[j].read.exists
       /\ auditRes.op = "verify"
          => /\ Breaks = {}
             /\ auditRes.result.TotalEntries = Len(appended)

C17_Witness ==
    /\ tamper = NoTamper
    /\ \E c \in Logging :
          /\ mu[1] = c
          /\ Len(appended) = MaxAppends - 1
          /\ \E i \in 1..Len(appended) : appended[i].caller # c
          /\ appended[Len(appended)].caller = c

\* C18: Verify and Show leave the log file as it was; they fail with
\* ErrNoAuditLog exactly when the file does not exist, and for a file that
\* exists, however broken, Verify succeeds and returns the positions of the
\* breaks.
C18_QueriesOnlyRead ==
    auditRes.op # "none"
    => /\ logFile = auditRes.file
       /\ auditRes.err = IF logFile.exists THEN "" ELSE "ErrNoAuditLog"
       /\ (auditRes.op = "verify" /\ logFile.exists)
          => /\ Breaks \subseteq 1..auditRes.result.TotalEntries
             /\ Len(auditRes.result.Breaks) = Cardinality(Breaks)

C18_Witness ==
    /\ auditRes.op = "verify"
    /\ tamper.kind = "overwrite"
    /\ tamper.variant = "garbage"
    /\ auditRes.err = ""
    /\ Cardinality(Breaks) = 2
    /\ logFile = auditRes.file

\* the entries a log file holds, oldest first: the lines that are entries
LogEntries(file) ==
    LET lines == ScanLines(file.bytes)
        parsed == [i \in 1..Len(lines) |-> UnmarshalEntry(lines[i])]
        isEntry(r) == r.err = ""
        kept == SelectSeq(parsed, isEntry)
    IN [i \in 1..Len(kept) |-> Summary(kept[i].e)]

\* the last n members of q
LastN(q, n) == SubSeq(q, Len(q) - n + 1, Len(q))

\* C19 as stated: Show(workdir, n) returns the entries of the log in file
\* order: all of them when n <= 0 or when the log holds at most n entries,
\* and otherwise the n entries appended last.
C19_ShowLastEntries ==
    (auditRes.op = "show" /\ logFile.exists)
    => /\ auditRes.err = ""
       /\ Once(LogEntries(logFile), LAMBDA entries :
             /\ auditRes.entries
                   = IF auditRes.n <= 0 \/ Len(entries) <= auditRes.n
                     THEN entries ELSE LastN(entries, auditRes.n)
             /\ tamper = NoTamper
                => entries = [i \in 1..Len(appended) |->
                                 Summary(appended[i].entry)])

\* the file was not rewritten from outside after call j of Log read it
Untouched(j) == tamper = NoTamper \/ tamper.after # j - 1

\* C28: Log only appends.  What a call of Log found in the file, chain
\* breaks and lines that do not parse included, is a prefix of the file
\* after the call, followed by the new line alone.
C28_AppendOnly ==
    \A j \in 1..Len(appended) :
        LET a == appended[j]
            after == IF j < Len(appended) THEN appended[j + 1].read.bytes
                     ELSE logFile.bytes
        IN (j < Len(appended) \/ tamper = NoTamper \/ tamper.after < j)
           /\ (j < Len(appended) => Untouched(j + 1))
           => /\ a.size = Len(a.read.bytes)
              /\ after = a.read.bytes \o a.line \o <<Newline>>

C28_Witness ==
    /\ tamper.variant = "garbage"
    /\ tamper.after = 2
    /\ Len(appended) = 3
    /\ ScanLines(appended[3].read.bytes)[tamper.k] = Garbage
    /\ logFile.bytes = appended[3].read.bytes \o appended[3].line \o <<Newline>>

(***************************************************************************)
(* Claims about two processes sharing a log (SpecShared).                  *)
(***************************************************************************)
\* the calls of Log that wrote to a file that was no longer as they read it
Stale == {j \in 1..Len(appended) :
             appended[j].size # Len(appended[j].read.bytes)}

\* two calls of Log read the same file before either wrote
ReadTogether(i, j) ==
    /\ i < j
    /\ appended[i].read.bytes = appended[j].read.bytes
    /\ appended[i].caller # appended[j].caller

\* C24: the mutex of one process does not hold back the other.  Each call
\* takes its prev_hash from the file as it read it; when two processes read
\* the same last line before either writes, the log gets two entries with
\* the same prev_hash, and Verify reports a break at every entry that was
\* written after the file had changed, and only there.
C24_ProcessesInterleave ==
    /\ \A c \in Logging : mu[ProcessOf(c)] = c
    /\ \A j \in 1..Len(appended) :
          appended[j].entry.PrevHash
             = IF NoLines(appended[j].read) THEN <<>>
               ELSE HashLine(LastLine(appended[j].read.bytes))
    /\ \A i, j \in 1..Len(appended) :
          ReadTogether(i, j)
          => /\ appended[i].entry.PrevHash = appended[j].entry.PrevHash
             /\ j \in Stale
    /\ auditRes.op = "verify" /\ logFile.exists
       => /\ auditRes.result.TotalEntries = Len(appended)
          /\ Breaks = Stale

C24_Witness ==
    /\ auditRes.op = "verify"
    /\ Len(appended) = MaxAppends
    /\ ReadTogether(MaxAppends - 1, MaxAppends)
    /\ appended[MaxAppends].entry.PrevHash # <<>>
    /\ MaxAppends \in Breaks

(***************************************************************************)
(* Claims about the master key (SpecKeys).                                 *)
(***************************************************************************)
\* the calls of GetMasterKey that returned a key
Succeeded == {i \in 1..Len(returned) : returned[i].err = ""}

\* the identity a call of GetMasterKey derived from
IdentityOf(i) == strategies[returned[i].inst].identity

\* C23: GetMasterKey returns masterKeySize bytes that depend on the identity
\* only: two calls for the same identity, on one instance or on two, return
\* the same bytes, two calls for different identities return different
\* bytes, and without identity the call fails.
C23_Deterministic ==
    /\ \A i \in 1..Len(returned) :
          returned[i].err = "" <=> IdentityOf(i) # NoIdentity
    /\ \A i \in Succeeded :
          Len(keyHeap[returned[i].ptr]) = masterKeySize
    /\ \A i, j \in Succeeded :
          IdentityOf(i) = IdentityOf(j)
             <=> keyHeap[returned[i].ptr] = keyHeap[returned[j].ptr]

C23_Witness ==
    \E i, j, k \in Succeeded :
        /\ returned[i].inst = returned[j].inst /\ i # j
        /\ returned[k].inst # returned[i].inst
        /\ IdentityOf(k) # IdentityOf(i)
        /\ keyHeap[returned[k].ptr] # keyHeap[returned[i].ptr]
        /\ keyHeap[returned[j].ptr] = keyHeap[returned[i].ptr]

\* C30 as stated: without coordination between the threads, all calls of
\* GetMasterKey on one instance return the same key bytes, and a call that
\* starts after another call on that instance returned a key returns the
\* same MasterKey object as that call and derives nothing.
C30_CacheNeedsNoCoordination ==
    \A i, j \in Succeeded :
        returned[i].inst = returned[j].inst
        => /\ keyHeap[returned[i].ptr] = keyHeap[returned[j].ptr]
           /\ returned[j].after >= i
              => /\ returned[j].ptr = returned[i].ptr
                 /\ ~returned[j].derived

(***************************************************************************)
(* Claims about the commands and the MCP tools (SpecCLI).                  *)
(***************************************************************************)
\* the op a command is logged under
OpOf(cmd) ==
    CASE cmd = "set" -> OpSet
      [] cmd = "create" -> OpEnvelopeCreate
      [] cmd = "run" -> OpEnvelopeRun

\* the commands that reported success
Successes == 1..Len(reports)

\* C27 as stated: every set / create_secret, envelope create and envelope
\* run that reported success has an audit entry of its own in the log of the
\* workspace: an entry with its op and its session id, and as many entries
\* of an op as commands of that op succeeded.
C27_EveryActionRecorded ==
    Once(LogEntries(logFile), LAMBDA entries :
        /\ \A i \in Successes :
              \E j \in 1..Len(entries) :
                 /\ entries[j].Op = OpOf(reports[i].cmd)
                 /\ entries[j].SessionID = reports[i].sid
        /\ \A cmd \in {"set", "create", "run"} :
              Cardinality({j \in 1..Len(entries) : entries[j].Op = OpOf(cmd)})
                 >= Cardinality({i \in Successes : reports[i].cmd = cmd}))

\* the steps an envelope run has taken, in their order
StepsTaken == [i \in 1..Len(run.steps) |-> run.steps[i].step]

\* the outcome of a step the envelope run has taken
StepResult(name) ==
    LET i == CHOOSE i \in 1..Len(run.steps) : run.steps[i].step = name
    IN run.steps[i].res

\* the token of the envelope run did not parse, was expired when Inspect or
\* Unwrap looked at the clock, or did not unwrap
Rejected ==
    \E i \in 1..Len(run.steps) :
       \/ run.steps[i].step = "parse" /\ run.steps[i].res # ""
       \/ run.steps[i].step = "inspect" /\ run.steps[i].res = "expired"
       \/ run.steps[i].step = "unwrap" /\ run.steps[i].res # ""

\* C29: on the command line and in the MCP tool, the command of envelope run
\* is started only after Parse succeeded, then Inspect reported a status
\* other than expired, then Unwrap succeeded, then the envelope_run entry
\* with the session id of the bundle was handed to the audit log, in this
\* order; for a token that does not parse, is expired or does not unwrap
\* the command is never started and the log stays as the run found it.
C29_RunOrder ==
    /\ run.started
       => /\ StepsTaken = <<"parse", "inspect", "unwrap", "audit">>
          /\ StepResult("parse") = ""
          /\ StepResult("inspect") # "expired"
          /\ StepResult("unwrap") = ""
          /\ run.sid = run.env.SessionID
          /\ run.logged = ""
             => Once(LogEntries(logFile), LAMBDA entries :
                   /\ Len(entries) > 0
                   /\ entries[Len(entries)].Op = OpEnvelopeRun
                   /\ entries[Len(entries)].SessionID = run.env.SessionID)
    /\ Rejected
       => /\ ~run.started
          /\ run.pc = "failed"
          /\ logFile = run.before

\* the MCP tool started the command of a token some time after it was
\* minted, and the entry is in the log
C29_Witness ==
    /\ run.started
    /\ run.surface = "mcp"
    /\ run.logged = ""
    /\ now > minted.env.CreatedAt
    /\ logFile.bytes # run.before.bytes

====
